---- MODULE Spec2Model ----
(***************************************************************************)
(* Cross-channel advertising budget optimizer (pmaxit/adveralabs).         *)
(*                                                                         *)
(* The module models                                                       *)
(*   - AdOptimizationAgent (score_arm, allocate_budget and its rule-based  *)
(*     fallback) and the BaseAgent it drives,                              *)
(*   - OptimizationStrategyService (the bandit learning state),            *)
(*   - OptimizationService (fetch_arm_states, optimize_once,               *)
(*     apply_budget_changes) as coroutines that interleave at their        *)
(*     awaits,                                                             *)
(*   - ROIAuditAgent and SignalGenerationAgent (their rule-based paths)    *)
(*     and the FacebookAdsIntegration adapter calls.                       *)
(*                                                                         *)
(* Python floats are modelled by exact rationals [n, d] in lowest terms,   *)
(* so no rounding error is represented.                                    *)
(***************************************************************************)
EXTENDS Integers, Sequences, FiniteSets, TLC

VARIABLES
    \* ---- AdOptimizationAgent.allocate_budget called through the API ----
    request,           \* the BudgetAllocationRequest being served
    calls,             \* number of allocate_budget calls made so far
    outcome,           \* what the last allocate_budget call did
    oracle,            \* what the LLM-backed agent did during the last call
    budget_agent,      \* AdOptimizationAgent.budget_agent (a BaseAgent)
    strategy_service,  \* arm_performance of the last OptimizationStrategyService
    \* ---- OptimizationService.optimize_once, one coroutine per task ----
    pc,                \* where each task is suspended
    cycle,             \* the arguments and locals of each task's cycle
    report,            \* what each task's optimize_once returned
    update_log,        \* update_adset_budget calls issued to the adapter
    \* ---- OptimizationService.fetch_arm_states called through the API ----
    fetch_call,        \* the arguments, position and result of the call
    \* ---- OptimizationService.apply_budget_changes ----
    apply_pc,          \* position inside apply_budget_changes: [at, index]
    apply_allocs,      \* its allocations argument
    apply_results,     \* its results list
    apply_report,      \* its return value
    \* ---- a function or method called directly ----
    invocation         \* the last call: its name, arguments and result

vars == <<request, calls, outcome, oracle, budget_agent, strategy_service,
          pc, cycle, report, update_log, fetch_call,
          apply_pc, apply_allocs, apply_results, apply_report,
          invocation>>

allocVars == <<request, calls, outcome, oracle, strategy_service>>
cycleVars == <<pc, cycle, report, update_log>>
applyVars == <<apply_pc, apply_allocs, apply_results, apply_report>>
fetchVars == <<fetch_call>>
callVars == <<invocation>>

(***************************************************************************)
(* Bounds of the model.                                                    *)
(***************************************************************************)
MaxArms == 2
MaxCalls == 2
MaxTasks == 2
MaxInsights == 2
MaxAllocs == 2

(***************************************************************************)
(* Exact rational arithmetic standing in for Python floats.                *)
(***************************************************************************)
RECURSIVE GCD(_, _)
GCD(a, b) == IF b = 0 THEN a ELSE GCD(b, a % b)

IAbs(x) == IF x < 0 THEN -x ELSE x

Rat(n, d) ==
    LET s == IF d < 0 THEN -1 ELSE 1
        g == GCD(IAbs(n), IAbs(d))
    IN  [n |-> (s * n) \div g, d |-> (s * d) \div g]

R(i) == [n |-> i, d |-> 1]
Zero == R(0)
One == R(1)

\* a + b over the least common denominator, g = gcd(a.d, b.d)
RAddOver(a, b, g) ==
    Rat(a.n * (b.d \div g) + b.n * (a.d \div g), (a.d \div g) * b.d)
RAdd(a, b) == RAddOver(a, b, GCD(a.d, b.d))
RNeg(a) == [n |-> -a.n, d |-> a.d]
RSub(a, b) == RAdd(a, RNeg(b))
\* a * b reduced crosswise first, g = gcd(|a.n|, b.d), h = gcd(|b.n|, a.d)
RMulOver(a, b, g, h) ==
    Rat((a.n \div g) * (b.n \div h), (a.d \div h) * (b.d \div g))
RMul(a, b) == RMulOver(a, b, GCD(IAbs(a.n), b.d), GCD(IAbs(b.n), a.d))
RDiv(a, b) == Rat(a.n * b.d, a.d * b.n)
RLt(a, b) == a.n * b.d < b.n * a.d
RLe(a, b) == a.n * b.d <= b.n * a.d
RAbs(a) == [n |-> IAbs(a.n), d |-> a.d]
RMax(a, b) == IF RLt(a, b) THEN b ELSE a
RMin(a, b) == IF RLt(b, a) THEN b ELSE a

RECURSIVE RSum(_)
RSum(s) == IF s = <<>> THEN Zero ELSE RAdd(Head(s), RSum(Tail(s)))

\* int(x) of a float: truncation toward zero
RTrunc(a) == IF a.n >= 0 THEN a.n \div a.d ELSE -((-a.n) \div a.d)

(***************************************************************************)
(* Optional[float]: None, or Some(v).                                      *)
(***************************************************************************)
None == [some |-> FALSE, v |-> Zero]
Some(x) == [some |-> TRUE, v |-> x]
\* Python truthiness of an Optional[float]: None and 0.0 are both falsy
Truthy(o) == o.some /\ o.v # Zero

(***************************************************************************)
(* ArmState and its derived properties.                                    *)
(***************************************************************************)
ArmState(platform, id, spend, revenue, conversions, clicks, impressions) ==
    [platform |-> platform, id |-> id,
     spend |-> spend, revenue |-> revenue,
     conversions |-> conversions, clicks |-> clicks,
     impressions |-> impressions,
     ltv |-> None, profit_margin |-> None,
     inventory_status |-> "None",
     audience_quality_score |-> None,
     current_daily_budget |-> None]

\* the ratio taken the wrong way round
RoasInverted(arm) ==
    IF RLt(Zero, arm.revenue) THEN RDiv(arm.spend, arm.revenue) ELSE Zero

roas(arm) ==
    IF RLt(Zero, arm.spend) THEN RDiv(arm.revenue, arm.spend) ELSE Zero

\* cpa is +inf when there are no conversions
cpa_is_inf(arm) == ~(arm.conversions > 0)
cpa(arm) == RDiv(arm.spend, R(arm.conversions))

DefaultMargin == Rat(2, 10)

profit(arm) ==
    IF arm.profit_margin.some
    THEN RSub(RMul(arm.revenue, arm.profit_margin.v), arm.spend)
    ELSE RSub(RMul(arm.revenue, DefaultMargin), arm.spend)

profit_roas(arm) ==
    IF RLt(Zero, arm.spend) THEN RDiv(profit(arm), arm.spend) ELSE Zero

ltv_roas(arm) ==
    IF arm.ltv.some /\ arm.conversions > 0
    THEN IF RLt(Zero, arm.spend)
         THEN RDiv(RMul(arm.ltv.v, R(arm.conversions)), arm.spend)
         ELSE Zero
    ELSE roas(arm)

\* 1.0 / arm.cpa if arm.cpa > 0 and arm.cpa != inf else 0.0
inverse_cpa(arm) ==
    IF ~cpa_is_inf(arm) /\ RLt(Zero, cpa(arm))
    THEN RDiv(One, cpa(arm))
    ELSE Zero

(***************************************************************************)
(* AdOptimizationAgent.score_arm                                           *)
(***************************************************************************)
ExplorationBonus(arm) == IF arm.impressions > 0 THEN Rat(3, 2) ELSE One

BaseScore(arm, goal) ==
    CASE goal = "roas" -> roas(arm)
      [] goal = "profit" ->
            IF arm.profit_margin.some THEN profit_roas(arm)
            ELSE RMul(roas(arm), Rat(8, 10))
      [] goal = "ltv" ->
            IF arm.ltv.some THEN ltv_roas(arm)
            ELSE RMul(roas(arm), Rat(12, 10))
      [] goal = "cpa" -> inverse_cpa(arm)
      [] OTHER -> roas(arm)

InventoryModifier(arm) ==
    CASE arm.inventory_status = "out_of_stock" -> Rat(1, 10)
      [] arm.inventory_status = "low_stock" -> Rat(7, 10)
      [] OTHER -> One

AudienceModifier(arm) ==
    IF arm.audience_quality_score.some
    THEN RAdd(Rat(1, 2), arm.audience_quality_score.v)
    ELSE One

\* score_arm with the modifiers applied to the exploration bonus as well
ScoreWithModifiedBonus(arm, min_conversions, goal) ==
    RMax(RMul(RMul(IF arm.conversions < min_conversions
                   THEN ExplorationBonus(arm) ELSE BaseScore(arm, goal),
                   InventoryModifier(arm)),
              AudienceModifier(arm)),
         Zero)

score_arm(arm, min_conversions, goal) ==
    IF arm.conversions < min_conversions
    THEN ExplorationBonus(arm)
    ELSE RMax(RMul(RMul(BaseScore(arm, goal), InventoryModifier(arm)),
                   AudienceModifier(arm)),
              Zero)

(***************************************************************************)
(* Python dicts keyed by arm id: a later entry for an id replaces an       *)
(* earlier one, and sum(d.values()) ranges over the distinct keys.         *)
(***************************************************************************)
EmptyDict == [k \in {} |-> Zero]

DictPut(d, k, v) ==
    [x \in DOMAIN d \cup {k} |-> IF x = k THEN v ELSE d[x]]

RECURSIVE DictSum(_, _)
DictSum(d, keys) ==
    IF keys = {} THEN Zero
    ELSE LET k == CHOOSE x \in keys : TRUE
         IN  RAdd(d[k], DictSum(d, keys \ {k}))

SumValues(d) == DictSum(d, DOMAIN d)

(***************************************************************************)
(* AdOptimizationAgent._allocate_budget_fallback                           *)
(***************************************************************************)
\* scores[arm.id] = max(score, 0.0) for arm in request.arms, in order
RECURSIVE FallbackScores(_, _, _)
FallbackScores(arms, req, acc) ==
    IF arms = <<>> THEN acc
    ELSE FallbackScores(Tail(arms), req,
            DictPut(acc, Head(arms).id,
                    RMax(score_arm(Head(arms), req.min_conversions,
                                   req.optimization_goal), Zero)))

\* arm.current_daily_budget or arm.spend
CurrentBudget(arm) ==
    IF Truthy(arm.current_daily_budget) THEN arm.current_daily_budget.v
    ELSE arm.spend

\* the max change ratio constraint applied to one raw budget
ClampBudget(new_budget, current_budget, max_change_ratio) ==
    LET max_change == RMul(current_budget, max_change_ratio)
    IN  IF RLt(max_change, RAbs(RSub(new_budget, current_budget)))
        THEN IF RLt(current_budget, new_budget)
             THEN RAdd(current_budget, max_change)
             ELSE RMax(Zero, RSub(current_budget, max_change))
        ELSE new_budget

ChangePct(new_budget, current_budget) ==
    IF RLt(Zero, current_budget)
    THEN RMul(RDiv(RSub(new_budget, current_budget), current_budget), R(100))
    ELSE Zero

FallbackReason(arm, req, share) ==
    IF arm.conversions < req.min_conversions
    THEN [text |-> "Exploration allocation - low conversion volume",
          share |-> share]
    ELSE IF req.optimization_goal = "profit" /\ Truthy(arm.profit_margin)
    THEN [text |-> "Profit-optimized allocation", share |-> share]
    ELSE IF req.optimization_goal = "ltv" /\ Truthy(arm.ltv)
    THEN [text |-> "LTV-optimized allocation", share |-> share]
    ELSE [text |-> "ROAS-based allocation", share |-> share]

EqualAllocation(arm, budget_per_arm) ==
    [arm_id |-> arm.id, platform |-> arm.platform,
     current_budget |-> CurrentBudget(arm),
     new_budget |-> budget_per_arm,
     change_percentage |-> Zero,
     score |-> Zero,
     reason |-> [text |-> "Equal allocation (no performance data)",
                 share |-> Zero]]

ProportionalAllocation(arm, req, scores, total_score) ==
    LET share == RDiv(scores[arm.id], total_score)
        current_budget == CurrentBudget(arm)
        new_budget == ClampBudget(RMul(req.total_budget, share),
                                  current_budget, req.max_change_ratio)
    IN  [arm_id |-> arm.id, platform |-> arm.platform,
         current_budget |-> current_budget,
         new_budget |-> new_budget,
         change_percentage |-> ChangePct(new_budget, current_budget),
         score |-> scores[arm.id],
         reason |-> FallbackReason(arm, req, share)]

NewBudgets(allocations) ==
    [i \in 1..Len(allocations) |-> allocations[i].new_budget]

Response(allocations, method) ==
    [allocations |-> allocations,
     total_allocated |-> RSum(NewBudgets(allocations)),
     method |-> method]

\* The result of a call: a returned response or a raised exception.
Returned(path, resp) ==
    [kind |-> "returned", path |-> path, response |-> resp, error |-> "None"]
Raised(path, error) ==
    [kind |-> "raised", path |-> path, response |-> Response(<<>>, "None"),
     error |-> error]

_allocate_budget_fallback(req) ==
    LET scores == FallbackScores(req.arms, req, EmptyDict)
        total_score == SumValues(scores)
        n == Len(req.arms)
    IN  IF total_score = Zero
        THEN IF n = 0
             THEN Raised("fallback", "ZeroDivisionError")
             ELSE Returned("fallback",
                    Response([i \in 1..n |->
                                EqualAllocation(req.arms[i],
                                    RDiv(req.total_budget, R(n)))],
                             "rule_based_fallback"))
        ELSE Returned("fallback",
                Response([i \in 1..n |->
                            ProportionalAllocation(req.arms[i], req, scores,
                                                   total_score)],
                         "rule_based_fallback"))

(***************************************************************************)
(* math.sqrt and math.log, approximated from below in fixed point.         *)
(* Both are exact at the arguments where the code tests for zero:          *)
(* SqrtApprox(0) = 0 and LnApprox(1) = 0.                                  *)
(***************************************************************************)
\* the largest r in lo..hi with r * r <= n, by bisection
RECURSIVE ISqrtIn(_, _, _)
ISqrtIn(n, lo, hi) ==
    IF lo >= hi THEN lo
    ELSE LET mid == (lo + hi + 1) \div 2
         IN  IF mid * mid <= n THEN ISqrtIn(n, mid, hi)
             ELSE ISqrtIn(n, lo, mid - 1)

ISqrt(n) == ISqrtIn(n, 0, IF n < 40000 THEN n ELSE 40000)

\* floor(x * 100) for a non-negative rational x
\* x = q + r / d with 0 <= r < d, one decimal digit of r / d at a time
FloorCentiOf(q, r, d) ==
    q * 100 + ((r * 10) \div d) * 10 + (((r * 10) % d) * 10) \div d
FloorCenti(x) == FloorCentiOf(x.n \div x.d, x.n % x.d, x.d)

\* sqrt(x) to two decimals: floor(10 * sqrt(floor(100 x))) / 100
SqrtApprox(x) == Rat(ISqrt(FloorCenti(x) * 100), 100)

RECURSIVE Log2Floor(_)
Log2Floor(n) == IF n < 2 THEN 0 ELSE 1 + Log2Floor(n \div 2)

RECURSIVE Pow2(_)
Pow2(e) == IF e = 0 THEN 1 ELSE 2 * Pow2(e - 1)

\* ln(n) * 10^4 for an integer n >= 1: n = 2^e * m with 1 <= m < 2,
\* ln n = e ln 2 + 2 atanh((m - 1) / (m + 1))
LnScaled(n) ==
    LET e == Log2Floor(n)
        p == Pow2(e)
        z == ((n - p) * 10000) \div (n + p)
        z2 == (z * z) \div 10000
        z3 == (z * z2) \div 10000
        z5 == (z3 * z2) \div 10000
        z7 == (z5 * z2) \div 10000
    IN  e * 6931 + 2 * (z + z3 \div 3 + z5 \div 5 + z7 \div 7)

LnApprox(n) == Rat(LnScaled(n), 10000)

(***************************************************************************)
(* OptimizationStrategyService: arm_performance and the bandit strategies  *)
(***************************************************************************)
NoPerformance == [k \in {} |-> [arm_id |-> "", platform |-> "",
                                mean_reward |-> Zero, variance |-> Zero,
                                pulls |-> 0, confidence_interval |-> Zero]]

Alpha == Rat(1, 10)
ZScore == Rat(196, 100)

\* ArmPerformance.standard_error for pulls > 0
standard_error(perf) ==
    IF RLt(Zero, perf.variance)
    THEN SqrtApprox(RDiv(perf.variance, R(perf.pulls)))
    ELSE Zero

Reward(arm, goal) ==
    CASE goal = "roas" -> roas(arm)
      [] goal = "profit" -> profit_roas(arm)
      [] goal = "ltv" -> ltv_roas(arm)
      [] goal = "cpa" -> inverse_cpa(arm)
      [] OTHER -> roas(arm)

\* a first record that does not count the call that created it
SeedPerformanceUnpulled(arm, reward) ==
    [arm_id |-> arm.id, platform |-> arm.platform,
     mean_reward |-> reward, variance |-> Zero, pulls |-> 0,
     confidence_interval |-> Zero]

\* the record stored for an arm id seen for the first time
SeedPerformance(arm, reward) ==
    [arm_id |-> arm.id, platform |-> arm.platform,
     mean_reward |-> reward, variance |-> Zero, pulls |-> 1,
     confidence_interval |-> Zero]

\* the in-place update of an existing record
MovePerformance(perf, reward) ==
    LET old_mean == perf.mean_reward
        Variance(new_mean) ==
            IF perf.pulls > 1
            THEN RDiv(RAdd(RMul(perf.variance, R(perf.pulls - 1)),
                           RMul(RSub(reward, old_mean),
                                RSub(reward, new_mean))),
                      R(perf.pulls))
            ELSE perf.variance
        Moved(new_mean) == [perf EXCEPT !.mean_reward = new_mean,
                                        !.variance = Variance(new_mean),
                                        !.pulls = perf.pulls + 1]
        WithInterval(moved) ==
            IF moved.pulls > 1
            THEN [moved EXCEPT !.confidence_interval =
                                    RMul(ZScore, standard_error(moved))]
            ELSE moved
    IN  WithInterval(Moved(RAdd(old_mean,
                                RMul(Alpha, RSub(reward, old_mean)))))

\* update_arm_performance: the map after the call
update_arm_performance(perfs, arm, goal) ==
    IF arm.id \notin DOMAIN perfs
    THEN [k \in DOMAIN perfs \cup {arm.id} |->
            IF k = arm.id THEN SeedPerformance(arm, Reward(arm, goal))
            ELSE perfs[k]]
    ELSE [perfs EXCEPT ![arm.id] = MovePerformance(@, Reward(arm, goal))]

\* self.arm_performance.get(arm_id)
get_arm_performance(perfs, arm_id) ==
    IF arm_id \in DOMAIN perfs THEN [some |-> TRUE, v |-> perfs[arm_id]]
    ELSE [some |-> FALSE, v |-> SeedPerformance([id |-> arm_id,
                                                 platform |-> ""], Zero)]

\* a reset that leaves the records where they are
ResetKeepsRecords(perfs) == perfs

\* self.arm_performance.clear()
reset_performance(perfs) == NoPerformance

\* "for arm in arms: perf = self.update_arm_performance(arm, goal)"
RECURSIVE UpdateAll(_, _, _)
UpdateAll(perfs, arms, goal) ==
    IF arms = <<>> THEN perfs
    ELSE UpdateAll(update_arm_performance(perfs, Head(arms), goal),
                   Tail(arms), goal)

ArmIds(arms) == {arms[i].id : i \in 1..Len(arms)}

\* position of the first arm carrying the id (dict insertion order)
FirstIndex(arms, id) ==
    CHOOSE i \in 1..Len(arms) :
        /\ arms[i].id = id
        /\ \A j \in 1..(i - 1) : arms[j].id # id

\* the first entry whose mean_reward is minimal
WorstArmId(perfs, arms) ==
    CHOOSE id \in ArmIds(arms) :
        \A other \in ArmIds(arms) \ {id} :
            \/ RLt(perfs[id].mean_reward, perfs[other].mean_reward)
            \/ /\ perfs[other].mean_reward = perfs[id].mean_reward
               /\ FirstIndex(arms, id) < FirstIndex(arms, other)

\* max(performances.items(), key=mean_reward)[0]: the first maximal entry
BestArmId(perfs, arms) ==
    CHOOSE id \in ArmIds(arms) :
        \A other \in ArmIds(arms) \ {id} :
            \/ RLt(perfs[other].mean_reward, perfs[id].mean_reward)
            \/ /\ perfs[other].mean_reward = perfs[id].mean_reward
               /\ FirstIndex(arms, id) < FirstIndex(arms, other)

RECURSIVE SumConversions(_)
SumConversions(arms) ==
    IF arms = <<>> THEN 0
    ELSE Head(arms).conversions + SumConversions(Tail(arms))

\* A strategy's result: the arm_performance map it leaves behind and either
\* the Dict[str, float] of allocations or the exception it raised.
StrategyResult(perfs, allocations) ==
    [perfs |-> perfs, allocations |-> allocations, error |-> "None"]
StrategyError(perfs, error) ==
    [perfs |-> perfs, allocations |-> EmptyDict, error |-> error]

EqualShares(arms, total_budget) ==
    [id \in ArmIds(arms) |-> RDiv(total_budget, R(Len(arms)))]

ProportionalShares(arms, total_budget, weights, total_weight) ==
    [id \in ArmIds(arms) |->
        RMul(total_budget, RDiv(weights[id], total_weight))]

\* rnd.explore is "random.random() < epsilon", rnd.pick is random.choice
epsilon_greedy(perfs0, arms, total_budget, goal, rnd) ==
    IF arms = <<>> THEN StrategyResult(perfs0, EmptyDict)
    ELSE LET Allocate(perfs) ==
                IF rnd.explore
                THEN StrategyResult(perfs,
                        [id \in {arms[rnd.pick].id} |->
                            RDiv(total_budget, R(Len(arms)))])
                ELSE StrategyResult(perfs,
                        [id \in {BestArmId(perfs, arms)} |-> total_budget])
         IN  Allocate(UpdateAll(perfs0, arms, goal))

UcbScore(perf, total_pulls, confidence_level) ==
    RAdd(perf.mean_reward,
         RMul(confidence_level,
              SqrtApprox(RDiv(LnApprox(total_pulls), R(perf.pulls)))))

ConfidenceLevel == R(2)

ucb(perfs0, arms, total_budget, goal, confidence_level) ==
    IF arms = <<>> THEN StrategyResult(perfs0, EmptyDict)
    ELSE LET total_pulls == IF SumConversions(arms) # 0
                            THEN SumConversions(arms) ELSE 1
             Shares(perfs, ucb_scores, total_score) ==
                IF total_score = Zero
                THEN StrategyResult(perfs, EqualShares(arms, total_budget))
                ELSE StrategyResult(perfs,
                        ProportionalShares(arms, total_budget, ucb_scores,
                                           total_score))
             Scored(perfs, ucb_scores) ==
                Shares(perfs, ucb_scores, SumValues(ucb_scores))
             Allocate(perfs) ==
                Scored(perfs, [id \in ArmIds(arms) |->
                                  UcbScore(perfs[id], total_pulls,
                                           confidence_level)])
         IN  Allocate(UpdateAll(perfs0, arms, goal))

\* normalized_reward = min(perf.mean_reward / 10.0, 1.0)
NormalizedReward(perf) == RMin(RDiv(perf.mean_reward, R(10)), One)

\* the Beta(alpha, beta) parameters derived from a record with pulls > 0
BetaParams(perf) ==
    LET normalized_reward == RMin(RDiv(perf.mean_reward, R(10)), One)
        successes == RTrunc(RMul(normalized_reward, R(perf.pulls)))
        failures == perf.pulls - successes
    IN  [alpha |-> successes + 1, beta |-> failures + 1]

\* rnd.samples[id] is the value np.random.beta returns for that arm;
\* numpy raises ValueError when a parameter is not positive
thompson_sampling(perfs0, arms, total_budget, goal, rnd) ==
    IF arms = <<>> THEN StrategyResult(perfs0, EmptyDict)
    ELSE LET samples == [id \in ArmIds(arms) |-> rnd.samples[id]]
             Positive(params) == params.alpha > 0 /\ params.beta > 0
             Allocate(perfs, total_sample) ==
                IF \E id \in ArmIds(arms) :
                        ~Positive(BetaParams(perfs[id]))
                THEN StrategyError(perfs, "ValueError")
                ELSE IF total_sample = Zero
                THEN StrategyResult(perfs, EqualShares(arms, total_budget))
                ELSE StrategyResult(perfs,
                        ProportionalShares(arms, total_budget, samples,
                                           total_sample))
         IN  Allocate(UpdateAll(perfs0, arms, goal), SumValues(samples))

\* which strategy adaptive_strategy delegates to
AdaptiveChoice(arms) ==
    LET total_conversions == SumConversions(arms)
        n == Len(arms)
    IN  IF n = 0 \/ total_conversions < 10 * n THEN "epsilon_greedy"
        ELSE IF total_conversions < 50 * n THEN "ucb"
        ELSE "thompson_sampling"

adaptive_strategy(perfs0, arms, total_budget, goal, rnd) ==
    CASE AdaptiveChoice(arms) = "epsilon_greedy" ->
            epsilon_greedy(perfs0, arms, total_budget, goal, rnd)
      [] AdaptiveChoice(arms) = "ucb" ->
            ucb(perfs0, arms, total_budget, goal, ConfidenceLevel)
      [] OTHER ->
            thompson_sampling(perfs0, arms, total_budget, goal, rnd)

allocate_with_strategy(perfs0, arms, total_budget, strategy, goal, rnd) ==
    CASE strategy = "epsilon_greedy" ->
            epsilon_greedy(perfs0, arms, total_budget, goal, rnd)
      [] strategy = "thompson_sampling" ->
            thompson_sampling(perfs0, arms, total_budget, goal, rnd)
      [] strategy = "adaptive" ->
            adaptive_strategy(perfs0, arms, total_budget, goal, rnd)
      [] OTHER ->  \* "ucb", and the default for any other name
            ucb(perfs0, arms, total_budget, goal, ConfidenceLevel)

(***************************************************************************)
(* BaseAgent                                                               *)
(***************************************************************************)
NewAgent == [_initialized |-> FALSE, _agent |-> "None"]

\* class AgentError(BaseException)
AgentErrorBase == "BaseException"

\* whether "except Exception" catches the error
IsException(error) ==
    \/ error \in {"ValueError", "ZeroDivisionError", "RuntimeError"}
    \/ error = "AgentError" /\ AgentErrorBase = "Exception"

\* initialize(): create_ok tells whether llm_service.create_agent succeeds
initialize(agent, create_ok) ==
    IF agent._initialized THEN [agent |-> agent, error |-> "None"]
    ELSE IF create_ok
    THEN [agent |-> [_initialized |-> TRUE, _agent |-> "Agent"],
          error |-> "None"]
    ELSE [agent |-> agent, error |-> "ValueError"]

\* execute(): run is what self._agent.run does, [ok, data]
execute(agent, create_ok, run) ==
    LET init == initialize(agent, create_ok)
    IN  IF init.error # "None"
        THEN [agent |-> init.agent, error |-> init.error, data |-> run.data]
        ELSE IF run.ok
        THEN [agent |-> init.agent, error |-> "None", data |-> run.data]
        ELSE [agent |-> init.agent, error |-> "AgentError",
              data |-> run.data]

\* a cleanup that drops the agent object and keeps the flag
CleanupKeepsFlag(agent) == [agent EXCEPT !._agent = "None"]

cleanup(agent) == [_initialized |-> FALSE, _agent |-> "None"]

get_status(agent) == [initialized |-> agent._initialized]

(***************************************************************************)
(* AdOptimizationAgent.allocate_budget                                     *)
(***************************************************************************)
\* strategy_service = OptimizationStrategyService(): built inside the call
NewStrategyService == NoPerformance

BanditAllocation(arm, allocations, strategy) ==
    LET new_budget == IF arm.id \in DOMAIN allocations
                      THEN allocations[arm.id] ELSE Zero
        current_budget == CurrentBudget(arm)
    IN  [arm_id |-> arm.id, platform |-> arm.platform,
         current_budget |-> current_budget,
         new_budget |-> new_budget,
         change_percentage |-> ChangePct(new_budget, current_budget),
         score |-> Zero,
         reason |-> [text |-> "Allocated using strategy", share |-> Zero]]

\* the oracle is not consulted
NoOracle == [init |-> "skipped", run |-> "not_reached"]

\* the branch taken when request.strategy names a bandit strategy
AllocateBandit(req, agent, env) ==
    LET Convert(res) ==
            [outcome |->
                IF res.error # "None" THEN Raised("bandit", res.error)
                ELSE Returned("bandit",
                        Response([i \in 1..Len(req.arms) |->
                                    BanditAllocation(req.arms[i],
                                        res.allocations, req.strategy)],
                                 req.strategy)),
             budget_agent |-> agent,
             strategy_service |-> res.perfs,
             oracle |-> NoOracle]
    IN  Convert(allocate_with_strategy(NewStrategyService, req.arms,
                    req.total_budget, req.strategy, req.optimization_goal,
                    env.rnd))

\* what the handler of "except Exception" does with an error of the try body
OnAgentFailure(req, error) ==
    IF IsException(error)
    THEN _allocate_budget_fallback(req)
    ELSE Raised("intelligent", error)

\* the branch driving the LLM-backed agent
AllocateIntelligent(req, agent, perfs, env) ==
    LET Try(init, exec) ==
            [outcome |->
                IF init.error # "None" THEN OnAgentFailure(req, init.error)
                ELSE IF exec.error # "None"
                THEN OnAgentFailure(req, exec.error)
                ELSE Returned("intelligent", exec.data),
             budget_agent |-> IF init.error # "None" THEN init.agent
                              ELSE exec.agent,
             strategy_service |-> perfs,
             oracle |->
                IF init.error # "None"
                THEN [init |-> "error", run |-> "not_reached"]
                ELSE [init |-> IF agent._initialized THEN "skipped"
                               ELSE "ok",
                      run |-> IF env.run.ok THEN "ok" ELSE "error"]]
        Run(init) == Try(init, execute(init.agent, env.create_ok, env.run))
    IN  Run(initialize(agent, env.create_ok))

allocate_budget(req, agent, perfs, env) ==
    IF req.strategy # "intelligent"
    THEN AllocateBandit(req, agent, env)
    ELSE AllocateIntelligent(req, agent, perfs, env)

(***************************************************************************)
(* Inputs: the arms, requests and environment choices the model ranges     *)
(* over.                                                                   *)
(***************************************************************************)
DefaultMinConversions == 10
DefaultMaxChangeRatio == Rat(3, 10)

\* two arms without any history
ArmA1 == ArmState("facebook", "A", Zero, Zero, 0, 0, 0)
ArmB1 == ArmState("google", "B", Zero, Zero, 0, 0, 0)
\* an under-sampled arm and a well-sampled one with the same ROAS
ArmA2 == ArmState("facebook", "A", R(200), R(800), 4, 100, 2000)
ArmB2 == ArmState("google", "B", R(200), R(800), 50, 100, 2000)
\* the same campaign out of stock and in stock
ArmA3 == [ArmState("facebook", "A", R(100), R(1000), 20, 250, 5000)
            EXCEPT !.inventory_status = "out_of_stock"]
ArmB3 == [ArmState("google", "B", R(100), R(1000), 20, 250, 5000)
            EXCEPT !.inventory_status = "in_stock"]
\* a well-sampled arm that earned nothing
ArmC == ArmState("facebook", "C", R(100), Zero, 20, 50, 1000)
\* an arm with business overlays, sharing its id with the facebook arms "A"
ArmD == [ArmState("google", "A", R(100), R(300), 12, 80, 3000)
            EXCEPT !.profit_margin = Some(Rat(2, 10)),
                   !.ltv = Some(R(30)),
                   !.audience_quality_score = Some(Rat(4, 10)),
                   !.current_daily_budget = Some(R(50))]

ArmCatalogue == {ArmA1, ArmB1, ArmA2, ArmB2, ArmA3, ArmB3, ArmC, ArmD}

RECURSIVE SeqsUpTo(_, _)
SeqsUpTo(S, n) ==
    IF n = 0 THEN {<<>>}
    ELSE LET shorter == SeqsUpTo(S, n - 1)
         IN  shorter \cup {Append(q, x) : q \in shorter, x \in S}

ArmLists == SeqsUpTo(ArmCatalogue, MaxArms)

Budgets == {R(100), R(110), R(400)}
Goals == {"roas", "profit", "ltv", "cpa"}
BanditStrategies == {"epsilon_greedy", "ucb", "thompson_sampling", "adaptive"}
Strategies == BanditStrategies \cup {"intelligent"}

BudgetAllocationRequest(arms, total_budget, goal, strategy) ==
    [arms |-> arms, total_budget |-> total_budget,
     min_conversions |-> DefaultMinConversions,
     max_change_ratio |-> DefaultMaxChangeRatio,
     optimization_goal |-> goal, strategy |-> strategy]

Requests ==
    {BudgetAllocationRequest(a, b, g, s) :
        a \in ArmLists, b \in Budgets, g \in Goals, s \in Strategies}

\* values np.random.beta may return
BetaSamples == {Zero, Rat(1, 4), Rat(3, 4)}

NoRandom == [explore |-> FALSE, pick |-> 1, samples |-> EmptyDict]

\* the strategy whose random draws the request consumes
EffectiveStrategy(req) ==
    IF req.strategy = "adaptive" THEN AdaptiveChoice(req.arms)
    ELSE req.strategy

RandomChoices(req) ==
    IF req.arms = <<>> THEN {NoRandom}
    ELSE CASE EffectiveStrategy(req) = "epsilon_greedy" ->
                {[explore |-> e, pick |-> p, samples |-> EmptyDict] :
                    e \in BOOLEAN, p \in 1..Len(req.arms)}
           [] EffectiveStrategy(req) = "thompson_sampling" ->
                {[explore |-> FALSE, pick |-> 1, samples |-> f] :
                    f \in [ArmIds(req.arms) -> BetaSamples]}
           [] OTHER -> {NoRandom}

\* responses the LLM-backed agent may produce for a request
KeepBudget(arm) ==
    [arm_id |-> arm.id, platform |-> arm.platform,
     current_budget |-> CurrentBudget(arm),
     new_budget |-> CurrentBudget(arm),
     change_percentage |-> Zero, score |-> One,
     reason |-> [text |-> "LLM", share |-> Zero]]

OracleResponses(req) ==
    {Response(<<>>, "intelligent"),
     Response([i \in 1..Len(req.arms) |-> KeepBudget(req.arms[i])],
              "intelligent")}

\* everything outside the program that one allocate_budget call depends on
Environments(req, agent) ==
    IF req.strategy = "intelligent"
    THEN {[create_ok |-> c, run |-> [ok |-> TRUE, data |-> d],
           rnd |-> NoRandom] :
            c \in (IF agent._initialized THEN {TRUE} ELSE BOOLEAN),
            d \in OracleResponses(req)}
         \cup
         {[create_ok |-> TRUE,
           run |-> [ok |-> FALSE, data |-> Response(<<>>, "None")],
           rnd |-> NoRandom]}
    ELSE {[create_ok |-> TRUE,
           run |-> [ok |-> TRUE, data |-> Response(<<>>, "None")],
           rnd |-> r] : r \in RandomChoices(req)}

(***************************************************************************)
(* Platform adapters and OptimizationService.fetch_arm_states              *)
(*                                                                         *)
(* A raw field is a loosely typed value: Num(x) is a number or a numeric   *)
(* string, NotNum a value float() and int() reject.                        *)
(***************************************************************************)
Num(x) == [ok |-> TRUE, v |-> x]
NotNum == [ok |-> FALSE, v |-> Zero]

\* float(raw)
ParseFloat(raw) == [ok |-> raw.ok, v |-> raw.v]
\* int(raw) of a string: only an integer literal is accepted
ParseInt(raw) == [ok |-> raw.ok /\ raw.v.d = 1, v |-> raw.v.n]

\* FacebookAdsIntegration.get_insights: any failure of the HTTP exchange is
\* caught inside the adapter and turned into an empty list
get_insights(http) == IF http.ok THEN http.data ELSE <<>>

\* GoogleAdsIntegration.get_campaign_insights returns a placeholder
get_campaign_insights == <<>>

ConversionActions == {"purchase", "lead", "complete_registration"}
RevenueActions == {"purchase"}

\* "for action in actions: if type in wanted: total += parse(value)";
\* the result is [ok, v], ok = FALSE when a wanted value does not parse
RECURSIVE SumActions(_, _, _)
SumActions(actions, wanted, asInt) ==
    IF actions = <<>> THEN [ok |-> TRUE, v |-> Zero]
    ELSE LET a == Head(actions)
             rest == SumActions(Tail(actions), wanted, asInt)
             parsed == IF asInt THEN ParseInt(a.value)
                       ELSE ParseFloat(a.value)
             value == IF asInt THEN R(parsed.v) ELSE parsed.v
         IN  IF a.action_type \notin wanted THEN rest
             ELSE IF ~parsed.ok THEN [ok |-> FALSE, v |-> Zero]
             ELSE [ok |-> rest.ok, v |-> RAdd(value, rest.v)]

\* the body of the facebook loop for one insight: [ok, arm]
NormalizeFacebook(insight) ==
    LET conversions == SumActions(insight.actions, ConversionActions, TRUE)
        revenue == SumActions(insight.action_values, RevenueActions, FALSE)
        spend == ParseFloat(insight.spend)
        clicks == ParseInt(insight.clicks)
        impressions == ParseInt(insight.impressions)
    IN  [ok |-> conversions.ok /\ revenue.ok /\ spend.ok /\ clicks.ok
                /\ impressions.ok,
         arm |-> ArmState("facebook", insight.campaign_id, spend.v,
                          revenue.v, conversions.v.n, clicks.v,
                          impressions.v)]

\* the body of the google loop for one insight: [ok, arm]
NormalizeGoogle(insight) ==
    LET m == insight.metrics
    IN  [ok |-> m.cost_micros.ok /\ m.conversion_value.ok /\ m.conversions.ok
                /\ m.clicks.ok /\ m.impressions.ok,
         arm |-> ArmState("google", insight.campaign.id,
                          RDiv(m.cost_micros.v, R(1000000)),
                          m.conversion_value.v, RTrunc(m.conversions.v),
                          RTrunc(m.clicks.v), RTrunc(m.impressions.v))]

\* A platform's try block: arms are appended one by one until an insight
\* raises; the exception leaves the block and what was appended stays.
RECURSIVE NormalizeLoop(_, _, _)
NormalizeLoop(arms, insights, platform) ==
    IF insights = <<>> THEN [arms |-> arms, error |-> "None"]
    ELSE LET r == IF platform = "facebook"
                  THEN NormalizeFacebook(Head(insights))
                  ELSE NormalizeGoogle(Head(insights))
         IN  IF r.ok
             THEN NormalizeLoop(Append(arms, r.arm), Tail(insights), platform)
             ELSE [arms |-> arms, error |-> "ValueError"]

\* a platform's block without its try/except: the error leaves the call
PlatformBlockUncaught(block) == block

\* "except Exception as e: logger.error(...)" around a platform's block:
\* what fetch_arm_states goes on with
AfterPlatformBlock(block) ==
    IF block.error = "None" \/ IsException(block.error)
    THEN [arms |-> block.arms, error |-> "None"]
    ELSE [arms |-> block.arms, error |-> block.error]

\* the facebook block once get_insights has answered
FacebookBlock(arms, http) ==
    AfterPlatformBlock(NormalizeLoop(arms, get_insights(http), "facebook"))

\* the google block; it contains no suspension point
GoogleBlock(arms, google_customer_id) ==
    IF google_customer_id = "None" THEN [arms |-> arms, error |-> "None"]
    ELSE AfterPlatformBlock(
            NormalizeLoop(arms, get_campaign_insights, "google"))

\* _parse_time_window, as the number of days the range reaches back
\* and whether it ends today
_parse_time_window(time_window) ==
    CASE time_window = "yesterday" -> [back |-> 1, to_today |-> FALSE]
      [] time_window = "last_7d" -> [back |-> 7, to_today |-> TRUE]
      [] time_window = "last_30d" -> [back |-> 30, to_today |-> TRUE]
      [] OTHER -> [back |-> 1, to_today |-> FALSE]

\* date_preset passed to get_insights
DatePreset(time_window) ==
    IF time_window \in {"yesterday", "last_7d", "last_30d"}
    THEN time_window ELSE "None"

\* fetch_arm_states from the answer of facebook (or from the start, when
\* facebook is not configured) to its return: [arms, error]
FetchRest(fb_block, google_customer_id) ==
    IF fb_block.error # "None" THEN fb_block
    ELSE GoogleBlock(fb_block.arms, google_customer_id)

NoFacebook == [arms |-> <<>>, error |-> "None"]

(***************************************************************************)
(* Initial values of the parts a specification leaves alone.               *)
(***************************************************************************)
Tasks == 1..MaxTasks

NoRequest == BudgetAllocationRequest(<<>>, R(100), "roas", "intelligent")
NoOutcome == [kind |-> "none", path |-> "none",
              response |-> Response(<<>>, "None"), error |-> "None"]

AllocIdle ==
    /\ request = NoRequest
    /\ calls = 0
    /\ outcome = NoOutcome
    /\ oracle = NoOracle
    /\ strategy_service = NoPerformance

NoCycle == [account_id |-> "", total_budget |-> Zero, goal |-> "roas",
            facebook_account_id |-> "None", google_customer_id |-> "None",
            arms |-> <<>>, allocator_calls |-> 0]
NoReport == [status |-> "none"]

CycleIdle ==
    /\ pc = [t \in Tasks |-> "idle"]
    /\ cycle = [t \in Tasks |-> NoCycle]
    /\ report = [t \in Tasks |-> NoReport]
    /\ update_log = <<>>

NoFetch == [pc |-> "idle", facebook_account_id |-> "None",
            google_customer_id |-> "None", time_window |-> "yesterday",
            date_preset |-> "None", http |-> [ok |-> TRUE, data |-> <<>>],
            arms |-> <<>>]

FetchIdle == fetch_call = NoFetch

NoInvocation == [op |-> "none"]
CallIdle == invocation = NoInvocation

ApplyIdle ==
    /\ apply_pc = [at |-> "idle", index |-> 0]
    /\ apply_allocs = <<>>
    /\ apply_results = <<>>
    /\ apply_report = [status |-> "none"]

(***************************************************************************)
(* AllocSpec: allocate_budget called up to MaxCalls times in a row on one  *)
(* AdOptimizationAgent with the request drawn initially.                   *)
(***************************************************************************)
AllocInit ==
    /\ request \in Requests
    /\ calls = 0
    /\ outcome = NoOutcome
    /\ oracle = NoOracle
    /\ strategy_service = NoPerformance
    /\ budget_agent = NewAgent
    /\ CycleIdle
    /\ FetchIdle
    /\ ApplyIdle
    /\ CallIdle

AllocateBudget ==
    /\ calls < MaxCalls
    /\ \E env \in Environments(request, budget_agent) :
        \E r \in {allocate_budget(request, budget_agent, strategy_service,
                                  env)} :
            /\ outcome' = r.outcome
            /\ oracle' = r.oracle
            /\ budget_agent' = r.budget_agent
            /\ strategy_service' = r.strategy_service
    /\ calls' = calls + 1
    /\ UNCHANGED <<callVars, request, cycleVars, fetchVars, applyVars>>

AllocNext == AllocateBudget

AllocSpec == AllocInit /\ [][AllocNext]_vars

(***************************************************************************)
(* Spec: OptimizationService.optimize_once invoked by concurrent requests  *)
(* (run_optimization).  A coroutine runs without interruption from one     *)
(* await that really suspends to the next: the HTTP exchange of            *)
(* get_insights and the LLM call of BaseAgent.execute.                     *)
(***************************************************************************)
Accounts == {"acct1", "acct2"}
PlatformRefs == {"None", "ref"}

\* raw insights of the social platform
FbGoodA == [campaign_id |-> "A", spend |-> Num(R(200)),
            clicks |-> Num(R(100)), impressions |-> Num(R(2000)),
            actions |-> <<[action_type |-> "purchase", value |-> Num(R(4))],
                          [action_type |-> "link_click",
                           value |-> NotNum]>>,
            action_values |-> <<[action_type |-> "purchase",
                                 value |-> Num(R(800))]>>]
FbGoodC == [campaign_id |-> "C", spend |-> Num(R(100)),
            clicks |-> Num(R(50)), impressions |-> Num(R(1000)),
            actions |-> <<[action_type |-> "lead", value |-> Num(R(20))]>>,
            action_values |-> <<>>]
FbBad == [campaign_id |-> "X", spend |-> NotNum,
          clicks |-> Num(R(1)), impressions |-> Num(R(10)),
          actions |-> <<>>, action_values |-> <<>>]

Http(ok, data) == [ok |-> ok, data |-> data]

\* answers of the social platform during a cycle
CycleAnswers ==
    {Http(FALSE, <<>>), Http(TRUE, <<>>), Http(TRUE, <<FbGoodA>>),
     Http(TRUE, <<FbBad>>)}

CycleBudget == R(100)

SuccessReport(arms, response) ==
    [status |-> "success", arms_processed |-> Len(arms),
     allocations |-> response]
NoDataReport ==
    [status |-> "no_data",
     message |-> "No campaign data available for optimization"]

\* the guard written as "if arms is None", which a list never satisfies
NoArmsIsNone(arms) == FALSE

\* "if not arms"
NoArms(arms) == arms = <<>>

\* optimize_once from the return of fetch_arm_states to its next suspension
\* or to its end; create_ok is the outcome of the agent's initialization
AfterFetch(t, c, arms, create_ok) ==
    IF NoArms(arms)
    THEN /\ pc' = [pc EXCEPT ![t] = "returned"]
         /\ cycle' = [cycle EXCEPT ![t] = [c EXCEPT !.arms = arms]]
         /\ report' = [report EXCEPT ![t] = NoDataReport]
         /\ UNCHANGED budget_agent
    ELSE LET req == BudgetAllocationRequest(arms, c.total_budget, c.goal,
                                            "intelligent")
             init == initialize(budget_agent, create_ok)
             c2 == [c EXCEPT !.arms = arms,
                             !.allocator_calls = c.allocator_calls + 1]
         IN  /\ budget_agent' = init.agent
             /\ cycle' = [cycle EXCEPT ![t] = c2]
             /\ IF init.error = "None"
                THEN /\ pc' = [pc EXCEPT ![t] = "await_agent"]
                     /\ UNCHANGED report
                ELSE \E res \in {OnAgentFailure(req, init.error)} :
                        IF res.kind = "returned"
                        THEN /\ pc' = [pc EXCEPT ![t] = "returned"]
                             /\ report' = [report EXCEPT ![t] =
                                    SuccessReport(arms, res.response)]
                        ELSE /\ pc' = [pc EXCEPT ![t] = "raised"]
                             /\ UNCHANGED report

\* run_optimization receives a request and runs optimize_once up to its
\* first suspension
Invoke(t) ==
    /\ pc[t] = "idle"
    /\ \E a \in Accounts, fb \in PlatformRefs, g \in PlatformRefs,
          create_ok \in BOOLEAN :
        LET c == [account_id |-> a, total_budget |-> CycleBudget,
                  goal |-> "roas",
                  facebook_account_id |-> fb, google_customer_id |-> g,
                  arms |-> <<>>, allocator_calls |-> 0]
        IN  IF fb # "None"
            THEN /\ pc' = [pc EXCEPT ![t] = "await_facebook"]
                 /\ cycle' = [cycle EXCEPT ![t] = c]
                 /\ UNCHANGED <<report, budget_agent>>
            ELSE AfterFetch(t, c, FetchRest(NoFacebook, g).arms, create_ok)
    /\ UNCHANGED <<callVars, update_log, allocVars, fetchVars, applyVars>>

\* the social platform answers the get_insights of task t
FacebookAnswers(t) ==
    /\ pc[t] = "await_facebook"
    /\ \E http \in CycleAnswers, create_ok \in BOOLEAN :
        AfterFetch(t, cycle[t],
                   FetchRest(FacebookBlock(<<>>, http),
                             cycle[t].google_customer_id).arms,
                   create_ok)
    /\ UNCHANGED <<callVars, update_log, allocVars, fetchVars, applyVars>>

\* the LLM call of task t ends
AgentAnswers(t) ==
    /\ pc[t] = "await_agent"
    /\ \E run \in {[ok |-> TRUE,
                    data |-> Response(<<>>, "intelligent")],
                   [ok |-> FALSE, data |-> Response(<<>>, "None")]} :
        LET req == BudgetAllocationRequest(cycle[t].arms,
                        cycle[t].total_budget, cycle[t].goal, "intelligent")
            exec == execute(budget_agent, TRUE, run)
            res == IF exec.error # "None"
                   THEN OnAgentFailure(req, exec.error)
                   ELSE Returned("intelligent", exec.data)
        IN  /\ budget_agent' = exec.agent
            /\ IF res.kind = "returned"
               THEN /\ pc' = [pc EXCEPT ![t] = "returned"]
                    /\ report' = [report EXCEPT ![t] =
                            SuccessReport(cycle[t].arms, res.response)]
               ELSE /\ pc' = [pc EXCEPT ![t] = "raised"]
                    /\ UNCHANGED report
    /\ UNCHANGED <<callVars, cycle, update_log, allocVars, fetchVars, applyVars>>

Init ==
    /\ budget_agent = NewAgent
    /\ CycleIdle
    /\ AllocIdle
    /\ FetchIdle
    /\ ApplyIdle
    /\ CallIdle

Next ==
    \E t \in Tasks : Invoke(t) \/ FacebookAnswers(t) \/ AgentAnswers(t)

Spec == Init /\ [][Next]_vars

(***************************************************************************)
(* FetchSpec: one call of fetch_arm_states (the fetch-arms endpoint).      *)
(***************************************************************************)
TimeWindows == {"yesterday", "last_7d", "last_30d", "this_month"}

FbCatalogue == {FbGoodA, FbGoodC, FbBad}

\* answers of the social platform to one get_insights
FetchAnswers ==
    {Http(FALSE, <<>>)}
    \cup {Http(TRUE, data) : data \in SeqsUpTo(FbCatalogue, MaxInsights)}

FetchInit ==
    /\ fetch_call = NoFetch
    /\ budget_agent = NewAgent
    /\ CycleIdle
    /\ AllocIdle
    /\ ApplyIdle
    /\ CallIdle

\* the call runs up to the await of get_insights, or to its end when the
\* social platform is not configured
FetchBegin ==
    /\ fetch_call.pc = "idle"
    /\ \E fb \in PlatformRefs, g \in PlatformRefs, w \in TimeWindows :
        LET call == [NoFetch EXCEPT !.facebook_account_id = fb,
                                    !.google_customer_id = g,
                                    !.time_window = w]
            rest == FetchRest(NoFacebook, g)
        IN  IF fb # "None"
            THEN fetch_call' = [call EXCEPT !.pc = "await_facebook",
                                    !.date_preset = DatePreset(w)]
            ELSE fetch_call' = [call EXCEPT
                                    !.pc = IF rest.error = "None"
                                           THEN "returned" ELSE "raised",
                                    !.arms = rest.arms]
    /\ UNCHANGED <<callVars, budget_agent, allocVars, cycleVars, applyVars>>

\* the social platform answers; the call runs to its end
FetchFacebookAnswers ==
    /\ fetch_call.pc = "await_facebook"
    /\ \E http \in FetchAnswers :
        LET rest == FetchRest(FacebookBlock(<<>>, http),
                              fetch_call.google_customer_id)
        IN  fetch_call' = [fetch_call EXCEPT
                                !.pc = IF rest.error = "None"
                                       THEN "returned" ELSE "raised",
                                !.http = http,
                                !.arms = rest.arms]
    /\ UNCHANGED <<callVars, budget_agent, allocVars, cycleVars, applyVars>>

FetchNext == FetchBegin \/ FetchFacebookAnswers

FetchSpec == FetchInit /\ [][FetchNext]_vars

(***************************************************************************)
(* ApplySpec: one call of apply_budget_changes.  The coroutine suspends    *)
(* at each update_adset_budget.                                            *)
(***************************************************************************)
Allocation(arm_id, platform, current_budget, new_budget) ==
    [arm_id |-> arm_id, platform |-> platform,
     current_budget |-> current_budget, new_budget |-> new_budget,
     change_percentage |-> ChangePct(new_budget, current_budget),
     score |-> One,
     reason |-> [text |-> "ROAS-based allocation", share |-> Zero]]

AllocationCatalogue ==
    {Allocation("A", "facebook", R(200), R(140)),
     Allocation("C", "facebook", R(100), Rat(1091, 10)),
     Allocation("B", "google", R(200), R(260)),
     Allocation("A", "google", R(50), R(65)),
     Allocation("B", "facebook", Zero, Zero),
     Allocation("T", "tiktok", R(10), R(10))}

AllocationLists == SeqsUpTo(AllocationCatalogue, MaxAllocs)

\* "daily_budget": int(daily_budget * 100), the budget in cents
BudgetCents(daily_budget) == RTrunc(RMul(daily_budget, R(100)))

SuccessResult(a) ==
    [arm_id |-> a.arm_id, platform |-> "facebook", status |-> "success",
     new_budget |-> a.new_budget]
PendingResult(a) ==
    [arm_id |-> a.arm_id, platform |-> "google", status |-> "pending",
     message |-> "Requires budget_id mapping"]
ErrorResult(a) ==
    [arm_id |-> a.arm_id, platform |-> a.platform, status |-> "error"]

CountStatus(results, status) ==
    Cardinality({i \in 1..Len(results) : results[i].status = status})

\* the dict apply_budget_changes returns
ApplyReport(results) ==
    [updated |-> CountStatus(results, "success"),
     failed |-> CountStatus(results, "error"),
     results |-> results]

\* The loop from allocation i on, up to the next update_adset_budget or to
\* the end: [at, results], at = the allocation whose update is awaited,
\* or Len(allocs) + 1 when the loop is over.
RECURSIVE ApplyRun(_, _, _)
ApplyRun(allocs, i, results) ==
    IF i > Len(allocs) THEN [at |-> i, results |-> results]
    ELSE IF allocs[i].platform = "facebook"
    THEN [at |-> i, results |-> results]
    ELSE IF allocs[i].platform = "google"
    THEN ApplyRun(allocs, i + 1, Append(results, PendingResult(allocs[i])))
    ELSE ApplyRun(allocs, i + 1, results)

\* the state after the loop ran from allocation i on
ApplyAdvance(allocs, i, results) ==
    \E run \in {ApplyRun(allocs, i, results)} :
        /\ apply_results' = run.results
        /\ IF run.at > Len(allocs)
           THEN /\ apply_pc' = [at |-> "returned", index |-> run.at]
                /\ apply_report' = ApplyReport(run.results)
                /\ UNCHANGED update_log
           ELSE /\ apply_pc' = [at |-> "await_update", index |-> run.at]
                /\ update_log' = Append(update_log,
                        [adset_id |-> allocs[run.at].arm_id,
                         daily_budget |->
                            BudgetCents(allocs[run.at].new_budget)])
                /\ UNCHANGED apply_report

ApplyInit ==
    /\ ApplyIdle
    /\ CallIdle
    /\ update_log = <<>>
    /\ pc = [t \in Tasks |-> "idle"]
    /\ cycle = [t \in Tasks |-> NoCycle]
    /\ report = [t \in Tasks |-> NoReport]
    /\ budget_agent = NewAgent
    /\ AllocIdle
    /\ FetchIdle

ApplyBegin ==
    /\ apply_pc.at = "idle"
    /\ \E allocs \in AllocationLists :
        /\ apply_allocs' = allocs
        /\ ApplyAdvance(allocs, 1, <<>>)
    /\ UNCHANGED <<callVars, budget_agent, allocVars, pc, cycle, report, fetchVars>>

\* update_adset_budget returns (ok) or raises what the HTTP exchange raised
UpdateAnswers ==
    /\ apply_pc.at = "await_update"
    /\ \E ok \in BOOLEAN :
        ApplyAdvance(apply_allocs, apply_pc.index + 1,
            Append(apply_results,
                   IF ok THEN SuccessResult(apply_allocs[apply_pc.index])
                   ELSE ErrorResult(apply_allocs[apply_pc.index])))
    /\ UNCHANGED <<callVars, apply_allocs, budget_agent, allocVars, pc, cycle, report,
                   fetchVars>>

ApplyNext == ApplyBegin \/ UpdateAnswers

ApplySpec == ApplyInit /\ [][ApplyNext]_vars

(***************************************************************************)
(* StrategySpec: one OptimizationStrategyService, as a caller holding the  *)
(* object uses it: reset_performance at any time and ucb up to             *)
(* MaxStrategyCalls times.                                                 *)
(***************************************************************************)
MaxStrategyArms == 3
MaxStrategyCalls == 1

\* arms "A", "B", "C" with rewards 4, 10 and 0, and "B" without history
StrategyArmLists == SeqsUpTo({ArmA2, ArmB3, ArmC, ArmB1}, MaxStrategyArms)

StrategyInit ==
    /\ strategy_service = NoPerformance
    /\ invocation = [op |-> "__init__", calls |-> 0]
    /\ request = NoRequest
    /\ calls = 0
    /\ outcome = NoOutcome
    /\ oracle = NoOracle
    /\ budget_agent = NewAgent
    /\ CycleIdle
    /\ FetchIdle
    /\ ApplyIdle

\* self.arm_performance.clear()
ResetPerformance ==
    /\ invocation.op # "reset_performance"
    /\ strategy_service' = NoPerformance
    /\ invocation' = [op |-> "reset_performance", calls |-> invocation.calls]
    /\ UNCHANGED <<request, calls, outcome, oracle, budget_agent, cycleVars,
                   fetchVars, applyVars>>

Ucb ==
    /\ invocation.calls < MaxStrategyCalls
    /\ \E arms \in StrategyArmLists :
        \E r \in {ucb(strategy_service, arms, R(300), "roas",
                      ConfidenceLevel)} :
            /\ strategy_service' = r.perfs
            /\ invocation' = [op |-> "ucb", after |-> invocation.op,
                              arms |-> arms, total_budget |-> R(300),
                              allocations |-> r.allocations,
                              error |-> r.error,
                              calls |-> invocation.calls + 1]
    /\ UNCHANGED <<request, calls, outcome, oracle, budget_agent, cycleVars,
                   fetchVars, applyVars>>

StrategyNext == ResetPerformance \/ Ucb

StrategySpec == StrategyInit /\ [][StrategyNext]_vars


(***************************************************************************)
(* ScoreSpec: score_arm and the derived ArmState properties applied to one *)
(* arm.                                                                    *)
(***************************************************************************)
ScoreSpends == {Zero, R(100)}
ScoreRevenues == {Zero, R(500), R(1000)}
ScoreConversions == {0, 4, 7, 20}
ScoreImpressions == {0, 5000}
InventoryStatuses == {"None", "in_stock", "low_stock", "out_of_stock"}
AudienceScores == {None, Some(Rat(4, 10)), Some(Rat(1, 2)), Some(Rat(9, 10))}

ScoreArms ==
    {[ArmState("facebook", "A", s, r, c, 0, i)
        EXCEPT !.ltv = l, !.profit_margin = m, !.inventory_status = inv,
               !.audience_quality_score = q] :
        s \in ScoreSpends, r \in ScoreRevenues, c \in ScoreConversions,
        i \in ScoreImpressions, l \in {None, Some(R(30))},
        m \in {None, Some(Rat(2, 10))}, inv \in InventoryStatuses,
        q \in AudienceScores}

MinConversions == {DefaultMinConversions, 5}

ScoreInit ==
    /\ CallIdle
    /\ AllocIdle
    /\ budget_agent = NewAgent
    /\ CycleIdle
    /\ FetchIdle
    /\ ApplyIdle

ScoreArm ==
    /\ invocation.op = "none"
    /\ \E arm \in ScoreArms, min_conversions \in MinConversions,
          goal \in Goals :
        invocation' = [op |-> "score_arm", arm |-> arm,
                       min_conversions |-> min_conversions, goal |-> goal,
                       result |-> score_arm(arm, min_conversions, goal)]
    /\ UNCHANGED <<budget_agent, allocVars, cycleVars, fetchVars, applyVars>>

LtvRoas ==
    /\ invocation.op = "none"
    /\ \E arm \in ScoreArms :
        invocation' = [op |-> "ltv_roas", arm |-> arm,
                       result |-> ltv_roas(arm)]
    /\ UNCHANGED <<budget_agent, allocVars, cycleVars, fetchVars, applyVars>>

ScoreNext == ScoreArm \/ LtvRoas

ScoreSpec == ScoreInit /\ [][ScoreNext]_vars


(***************************************************************************)
(* ROIAuditAgent._audit_fallback, the rule-based audit                     *)
(***************************************************************************)
TrackingIssue(issue_type, severity, arm) ==
    [issue_type |-> issue_type, severity |-> severity,
     affected_arms |-> <<arm.id>>]

ConfigurationIssue(issue_type, severity, platform) ==
    [issue_type |-> issue_type, severity |-> severity,
     platform |-> platform]

\* the tracking issues the loop body appends for one arm
ArmTrackingIssues(arm) ==
    (IF RLt(Zero, arm.spend) /\ arm.conversions = 0
     THEN <<TrackingIssue("missing_conversions", "critical", arm)>>
     ELSE <<>>)
    \o
    (IF arm.conversions > 0 /\ arm.conversions < 10
        /\ RLt(R(100), arm.spend)
     THEN <<TrackingIssue("low_conversion_volume", "high", arm)>>
     ELSE <<>>)

\* the configuration issues the loop body appends for one arm
ArmConfigIssues(arm, goal) ==
    (IF RLt(roas(arm), Rat(1, 2)) /\ RLt(R(500), arm.spend)
     THEN <<ConfigurationIssue("negative_roas", "high", arm.platform)>>
     ELSE <<>>)
    \o
    (IF goal = "ltv" /\ ~arm.ltv.some
     THEN <<ConfigurationIssue("missing_ltv_data", "medium", arm.platform)>>
     ELSE <<>>)
    \o
    (IF goal = "profit" /\ ~arm.profit_margin.some
     THEN <<ConfigurationIssue("missing_profit_margin", "medium",
                               arm.platform)>>
     ELSE <<>>)
    \o
    (IF arm.inventory_status = "out_of_stock" /\ RLt(Zero, arm.spend)
     THEN <<ConfigurationIssue("out_of_stock_campaign", "high",
                               arm.platform)>>
     ELSE <<>>)

\* "for arm in request.arms": the two lists after the loop
RECURSIVE AuditArmLoop(_, _, _)
AuditArmLoop(arms, goal, issues) ==
    IF arms = <<>> THEN issues
    ELSE AuditArmLoop(Tail(arms), goal,
            [tracking |-> issues.tracking \o ArmTrackingIssues(Head(arms)),
             config |-> issues.config \o ArmConfigIssues(Head(arms), goal)])

\* platform_configs: Optional[Dict[str, Dict[str, Any]]]
NoConfigs == [some |-> FALSE, v |-> <<>>]

\* request.platform_configs.get(platform, {}).get(key, False)
ConfigGet(configs, platform, key) ==
    IF platform \in DOMAIN configs.v
    THEN IF key \in DOMAIN configs.v[platform]
         THEN configs.v[platform][key] ELSE FALSE
    ELSE FALSE

\* truthiness of request.platform_configs: None and {} are both falsy
HasConfigs(configs) == configs.some /\ DOMAIN configs.v # {}

\* the platform-specific checks
PlatformIssues(configs) ==
    IF HasConfigs(configs)
    THEN (IF ~ConfigGet(configs, "facebook", "conversions_api_enabled")
          THEN <<ConfigurationIssue("missing_capi", "high", "facebook")>>
          ELSE <<>>)
         \o
         (IF ~ConfigGet(configs, "google", "enhanced_conversions_enabled")
          THEN <<ConfigurationIssue("missing_enhanced_conversions", "high",
                                    "google")>>
          ELSE <<>>)
    ELSE <<>>

\* len([i for i in tracking_issues + config_issues if i.severity == s])
SeverityCount(issues, severity) ==
    Cardinality({i \in 1..Len(issues) : issues[i].severity = severity})

\* the score without its lower bound
HealthScoreUnbounded(critical_count, high_count, medium_count) ==
    100 - (critical_count * 20 + high_count * 10 + medium_count * 5)

HealthScore(critical_count, high_count, medium_count) ==
    IF 100 - (critical_count * 20 + high_count * 10 + medium_count * 5) > 0
    THEN 100 - (critical_count * 20 + high_count * 10 + medium_count * 5)
    ELSE 0

AuditRecommendations(configs, critical_count, high_count) ==
    (IF critical_count > 0 THEN <<"Fix critical issue(s) immediately">>
     ELSE <<>>)
    \o
    (IF high_count > 0 THEN <<"Address high-priority issue(s)">> ELSE <<>>)
    \o
    (IF ~HasConfigs(configs)
        \/ ~ConfigGet(configs, "facebook", "conversions_api_enabled")
     THEN <<"Set up Facebook Conversions API for better tracking">>
     ELSE <<>>)
    \o
    (IF ~HasConfigs(configs)
        \/ ~ConfigGet(configs, "google", "enhanced_conversions_enabled")
     THEN <<"Enable Google Enhanced Conversions">>
     ELSE <<>>)

_audit_fallback(req) ==
    LET Respond(tracking_issues, config_issues, critical_count,
                high_count, medium_count) ==
            [tracking_issues |-> tracking_issues,
             configuration_issues |-> config_issues,
             overall_health_score |->
                HealthScore(critical_count, high_count, medium_count),
             critical_issues_count |-> critical_count,
             recommendations |->
                AuditRecommendations(req.platform_configs, critical_count,
                                     high_count)]
        Count(tracking_issues, config_issues) ==
            Respond(tracking_issues, config_issues,
                SeverityCount(tracking_issues \o config_issues, "critical"),
                SeverityCount(tracking_issues \o config_issues, "high"),
                SeverityCount(tracking_issues \o config_issues, "medium"))
        Check(issues) ==
            Count(issues.tracking,
                  issues.config \o PlatformIssues(req.platform_configs))
    IN  Check(AuditArmLoop(req.arms, req.optimization_goal,
                           [tracking |-> <<>>, config |-> <<>>]))

(***************************************************************************)
(* AuditSpec: one _audit_fallback call                                     *)
(***************************************************************************)
MaxAuditArms == 2

\* an arm spending without conversions while out of stock
ArmE == [ArmState("facebook", "E", R(600), Zero, 0, 10, 1000)
            EXCEPT !.inventory_status = "out_of_stock"]

AuditArmLists == SeqsUpTo({ArmE, ArmA2, ArmB3, ArmD}, MaxAuditArms)

ConfigKey(platform) ==
    IF platform = "facebook" THEN "conversions_api_enabled"
    ELSE "enhanced_conversions_enabled"

\* a platform's dict: empty, or with its flag set to True or False
PlatformDicts(platform) ==
    {<<>>} \cup {[k \in {ConfigKey(platform)} |-> b] : b \in BOOLEAN}

PlatformConfigs ==
    {NoConfigs}
    \cup
    {[some |-> TRUE, v |-> c] :
        c \in UNION {{f \in [S -> UNION {PlatformDicts(p) : p \in S}] :
                        \A p \in S : f[p] \in PlatformDicts(p)} :
                     S \in SUBSET {"facebook", "google"}}}

ROIAuditRequest(arms, goal, configs) ==
    [arms |-> arms, account_id |-> "acct1", optimization_goal |-> goal,
     platform_configs |-> configs]

AuditRequests ==
    {ROIAuditRequest(a, g, c) :
        a \in AuditArmLists, g \in Goals, c \in PlatformConfigs}

AuditInit ==
    /\ CallIdle
    /\ AllocIdle
    /\ budget_agent = NewAgent
    /\ CycleIdle
    /\ FetchIdle
    /\ ApplyIdle

AuditFallback ==
    /\ invocation.op = "none"
    /\ \E req \in AuditRequests :
        invocation' = [op |-> "_audit_fallback", request |-> req,
                       response |-> _audit_fallback(req)]
    /\ UNCHANGED <<budget_agent, allocVars, cycleVars, fetchVars, applyVars>>

AuditNext == AuditFallback

AuditSpec == AuditInit /\ [][AuditNext]_vars


(***************************************************************************)
(* SignalGenerationAgent._generate_signals_fallback, the rule-based        *)
(* signal generation.  metadata is a dict; a key it does not hold reads    *)
(* as "" (or False for "qualified").                                       *)
(***************************************************************************)
BusinessEvent(event_type, event_id, user_id, revenue, metadata) ==
    [event_type |-> event_type, event_id |-> event_id, user_id |-> user_id,
     revenue |-> revenue, currency |-> "USD", metadata |-> metadata]

NoMetadata == [product_id |-> "", email |-> "", phone |-> "",
               qualified |-> FALSE]

LTVData(user_id, predicted_ltv) ==
    [user_id |-> user_id, predicted_ltv |-> predicted_ltv]

\* next((ltv for ltv in request.ltv_data if ltv.user_id == user_id), None)
FirstLtv(ltv_data, user_id) ==
    LET matches == {i \in 1..Len(ltv_data) : ltv_data[i].user_id = user_id}
    IN  IF matches = {} THEN [found |-> FALSE, predicted_ltv |-> None]
        ELSE [found |-> TRUE,
              predicted_ltv |->
                ltv_data[CHOOSE i \in matches :
                            \A j \in matches : i <= j].predicted_ltv]

\* "ltv_data and ltv_data.predicted_ltv and predicted_ltv > value * 1.5"
IsHighValue(req, event) ==
    /\ req.ltv_data.some
    /\ req.ltv_data.v # <<>>
    /\ FirstLtv(req.ltv_data.v, event.user_id).found
    /\ Truthy(FirstLtv(req.ltv_data.v, event.user_id).predicted_ltv)
    /\ RLt(RMul(event.revenue.v, Rat(3, 2)),
           FirstLtv(req.ltv_data.v, event.user_id).predicted_ltv.v)

\* "request.profit_margins and event.metadata.get('product_id')"
HasMargin(req, event) ==
    /\ req.profit_margins.some
    /\ DOMAIN req.profit_margins.v # {}
    /\ event.metadata.product_id # ""

\* request.profit_margins.get(product_id, 0.2)
Margin(req, event) ==
    IF event.metadata.product_id \in DOMAIN req.profit_margins.v
    THEN req.profit_margins.v[event.metadata.product_id]
    ELSE Rat(2, 10)

\* the value of a purchase that carries a revenue
PurchaseValue(req, event) ==
    IF HasMargin(req, event)
    THEN RMul(event.revenue.v, Margin(req, event))
    ELSE IF IsHighValue(req, event)
    THEN FirstLtv(req.ltv_data.v, event.user_id).predicted_ltv.v
    ELSE event.revenue.v

\* "event.revenue or default"
RevenueOr(event, default) ==
    IF Truthy(event.revenue) THEN event.revenue.v ELSE default

\* classification, event_name and value of an event that is not skipped
Classify(req, event) ==
    CASE event.event_type = "purchase" ->
            [classification |-> IF IsHighValue(req, event)
                                THEN "high_value_purchase" ELSE "purchase",
             event_name |-> "Purchase",
             value |-> PurchaseValue(req, event)]
      [] event.event_type = "lead" ->
            [classification |->
                IF req.qualification_rules /\ event.metadata.qualified
                THEN "qualified_lead" ELSE "lead",
             event_name |-> "Lead",
             value |-> RevenueOr(event, R(10))]
      [] event.event_type \in {"signup", "trial_start"} ->
            [classification |-> "trial_start",
             event_name |-> "CompleteRegistration",
             value |-> RevenueOr(event, Zero)]
      [] OTHER ->
            [classification |-> event.event_type,
             event_name |-> event.event_type,
             value |-> RevenueOr(event, Zero)]

\* the platforms of a fan-out that reaches one platform only
SignalPlatformsOnce(platform) ==
    IF platform = "both" THEN <<"facebook">> ELSE <<platform>>

\* ["facebook", "google"] if request.platform == "both"
SignalPlatforms(platform) ==
    IF platform = "both" THEN <<"facebook", "google">> ELSE <<platform>>

\* {k: v for k, v in user_data.items() if v}
UserData(event) ==
    [k \in {x \in {"email", "phone"} : event.metadata[x] # ""} |->
        event.metadata[k]]

PlatformSignal(platform, event, class) ==
    [platform |-> platform, event_name |-> class.event_name,
     event_id |-> <<event.event_id, platform>>, value |-> class.value,
     currency |-> event.currency, user_data |-> UserData(event),
     custom_data |-> event.metadata,
     classification |-> class.classification]

\* "for platform in platforms": the signals of one event
EventSignals(req, event) ==
    [i \in 1..Len(SignalPlatforms(req.platform)) |->
        PlatformSignal(SignalPlatforms(req.platform)[i], event,
                       Classify(req, event))]

\* "for event in request.events": signals and issues after the loop
RECURSIVE SignalLoop(_, _, _)
SignalLoop(req, events, acc) ==
    IF events = <<>> THEN acc
    ELSE IF Head(events).event_type = "purchase"
            /\ ~Head(events).revenue.some
    THEN SignalLoop(req, Tail(events),
            [acc EXCEPT !.issues = Append(@, Head(events).event_id)])
    ELSE SignalLoop(req, Tail(events),
            [acc EXCEPT !.signals = @ \o EventSignals(req, Head(events))])

\* signals_by_platform
SignalsByPlatform(signals) ==
    [p \in {signals[i].platform : i \in 1..Len(signals)} |->
        Cardinality({i \in 1..Len(signals) : signals[i].platform = p})]

\* PlatformSignal declares value with ge=0: building a signal with a
\* negative value raises a ValidationError out of the method
_generate_signals_fallback(req) ==
    LET Respond(acc) ==
            IF \E i \in 1..Len(acc.signals) :
                    RLt(acc.signals[i].value, Zero)
            THEN [raised |-> TRUE, error |-> "ValidationError",
                  signals |-> <<>>, issues_detected |-> <<>>,
                  total_value |-> Zero,
                  signals_by_platform |-> SignalsByPlatform(<<>>)]
            ELSE [raised |-> FALSE, error |-> "None",
                  signals |-> acc.signals,
                  issues_detected |-> acc.issues,
                  total_value |->
                    RSum([i \in 1..Len(acc.signals) |->
                            acc.signals[i].value]),
                  signals_by_platform |-> SignalsByPlatform(acc.signals)]
    IN  Respond(SignalLoop(req, req.events,
                           [signals |-> <<>>, issues |-> <<>>]))

(***************************************************************************)
(* SignalSpec: one _generate_signals_fallback call                         *)
(***************************************************************************)
MaxEvents == 2

SignalEvents ==
    {BusinessEvent("purchase", "e1", "u1", Some(R(100)),
        [NoMetadata EXCEPT !.product_id = "p1", !.email = "a@x.io"]),
     BusinessEvent("purchase", "e2", "u2", None, NoMetadata),
     BusinessEvent("lead", "e3", "u1", None,
        [NoMetadata EXCEPT !.qualified = TRUE]),
     BusinessEvent("signup", "e4", "u2", None, NoMetadata),
     BusinessEvent("purchase", "e5", "u1", Some(R(100)), NoMetadata),
     BusinessEvent("page_view", "e6", "u2", Some(R(5)), NoMetadata)}

EventLists == SeqsUpTo(SignalEvents, MaxEvents)

\* ltv_data: None, an empty list, or one record for user u1
LtvDataChoices ==
    {[some |-> FALSE, v |-> <<>>], [some |-> TRUE, v |-> <<>>],
     [some |-> TRUE, v |-> <<LTVData("u1", Some(R(200)))>>],
     [some |-> TRUE, v |-> <<LTVData("u1", Some(R(120)))>>]}

\* profit_margins: None, or a map naming product p1 or another product;
\* margins lie in [0, 1]
ProfitMarginChoices ==
    {[some |-> FALSE, v |-> <<>>],
     [some |-> TRUE, v |-> [k \in {"p1"} |-> Rat(1, 2)]],
     [some |-> TRUE, v |-> [k \in {"p2"} |-> Rat(3, 10)]]}

SignalGenerationRequest(events, platform, ltv_data, margins, rules) ==
    [events |-> events, platform |-> platform, ltv_data |-> ltv_data,
     profit_margins |-> margins, qualification_rules |-> rules]

SignalRequests ==
    {SignalGenerationRequest(e, p, l, m, q) :
        e \in EventLists, p \in {"facebook", "google", "both"},
        l \in LtvDataChoices, m \in ProfitMarginChoices, q \in BOOLEAN}

SignalInit ==
    /\ CallIdle
    /\ AllocIdle
    /\ budget_agent = NewAgent
    /\ CycleIdle
    /\ FetchIdle
    /\ ApplyIdle

GenerateSignalsFallback ==
    /\ invocation.op = "none"
    /\ \E req \in SignalRequests :
        invocation' = [op |-> "_generate_signals_fallback",
                       request |-> req,
                       response |-> _generate_signals_fallback(req)]
    /\ UNCHANGED <<budget_agent, allocVars, cycleVars, fetchVars, applyVars>>

SignalNext == GenerateSignalsFallback

SignalSpec == SignalInit /\ [][SignalNext]_vars


(***************************************************************************)
(* FacebookAdsIntegration: the three calls as their caller sees them.  An  *)
(* answer of the platform is [ok, data, error]: ok = FALSE when the        *)
(* request or raise_for_status raised the exception named by error.        *)
(***************************************************************************)
HttpAnswer(ok, data, error) == [ok |-> ok, data |-> data, error |-> error]

\* what a call hands to its caller: a returned value or a raised exception
CallReturned(value) == [raised |-> FALSE, value |-> value, error |-> "None"]
CallRaised(error) == [raised |-> TRUE, value |-> <<>>, error |-> error]

\* get_insights as seen by its caller: "except Exception: return []"
get_insights_call(account_id, date_preset, http) ==
    CallReturned(get_insights(http))

\* "except Exception as e: logger.error(...); raise"
update_adset_budget(adset_id, daily_budget, http) ==
    IF http.ok THEN CallReturned(http.data) ELSE CallRaised(http.error)

\* "except Exception as e: logger.error(...); raise"
send_conversion_event(pixel_id, event_name, event_id, value, http) ==
    IF http.ok THEN CallReturned(http.data) ELSE CallRaised(http.error)

(***************************************************************************)
(* AdapterSpec: one call of FacebookAdsIntegration                         *)
(***************************************************************************)
HttpFailures ==
    {HttpAnswer(FALSE, <<>>, "ConnectError"),
     HttpAnswer(FALSE, <<>>, "HTTPStatusError")}

InsightAnswers ==
    HttpFailures
    \cup {HttpAnswer(TRUE, data, "None") :
            data \in SeqsUpTo(FbCatalogue, MaxInsights)}

PostAnswers == HttpFailures \cup {HttpAnswer(TRUE, <<"success">>, "None")}

AccountIds == {"act_1", "act_2"}
DatePresets == {"yesterday", "last_7d", "last_30d"}
AdsetIds == {"A", "C"}
DailyBudgets == {Zero, R(50), Rat(1999, 100)}
PixelIds == {"px1"}
ConversionNames == {"Purchase", "Lead"}
ConversionIds == {<<"e1", "facebook">>, <<"e3", "facebook">>}
ConversionValues == {R(10), R(100)}

AdapterInit ==
    /\ CallIdle
    /\ AllocIdle
    /\ budget_agent = NewAgent
    /\ CycleIdle
    /\ FetchIdle
    /\ ApplyIdle

GetInsights ==
    /\ invocation.op = "none"
    /\ \E account_id \in AccountIds, date_preset \in DatePresets,
          http \in InsightAnswers :
        invocation' = [op |-> "get_insights", target |-> account_id,
                       args |-> <<date_preset>>, http |-> http,
                       result |-> get_insights_call(account_id, date_preset,
                                                    http)]
    /\ UNCHANGED <<budget_agent, allocVars, cycleVars, fetchVars, applyVars>>

UpdateAdsetBudget ==
    /\ invocation.op = "none"
    /\ \E adset_id \in AdsetIds, daily_budget \in DailyBudgets,
          http \in PostAnswers :
        invocation' = [op |-> "update_adset_budget", target |-> adset_id,
                       args |-> <<BudgetCents(daily_budget)>>, http |-> http,
                       result |-> update_adset_budget(adset_id, daily_budget,
                                                      http)]
    /\ UNCHANGED <<budget_agent, allocVars, cycleVars, fetchVars, applyVars>>

SendConversionEvent ==
    /\ invocation.op = "none"
    /\ \E pixel_id \in PixelIds, event_name \in ConversionNames,
          event_id \in ConversionIds, value \in ConversionValues,
          http \in PostAnswers :
        invocation' = [op |-> "send_conversion_event", target |-> pixel_id,
                       args |-> <<event_name, event_id, value>>,
                       http |-> http,
                       result |-> send_conversion_event(pixel_id, event_name,
                                                        event_id, value, http)]
    /\ UNCHANGED <<budget_agent, allocVars, cycleVars, fetchVars, applyVars>>

AdapterNext == GetInsights \/ UpdateAdsetBudget \/ SendConversionEvent

AdapterSpec == AdapterInit /\ [][AdapterNext]_vars


(***************************************************************************)
(* LifecycleSpec: initialize, execute, cleanup and get_status called in    *)
(* any order on one BaseAgent, up to MaxLifecycleCalls calls.  The record  *)
(* of the last call keeps whether an initialize has succeeded since the    *)
(* construction or the last cleanup.                                       *)
(***************************************************************************)
MaxLifecycleCalls == 7

LifecycleCall(op, error, since, cleaned, status) ==
    [op |-> op, calls |-> invocation.calls + 1, error |-> error,
     initialized_since |-> since, cleaned |-> cleaned, status |-> status]

LifecycleInit ==
    /\ invocation = [op |-> "__init__", calls |-> 0, error |-> "None",
                     initialized_since |-> FALSE, cleaned |-> FALSE,
                     status |-> get_status(NewAgent)]
    /\ AllocIdle
    /\ budget_agent = NewAgent
    /\ CycleIdle
    /\ FetchIdle
    /\ ApplyIdle

Initialize ==
    /\ invocation.calls < MaxLifecycleCalls
    /\ \E create_ok \in BOOLEAN :
        \E r \in {initialize(budget_agent, create_ok)} :
            /\ budget_agent' = r.agent
            /\ invocation' =
                LifecycleCall("initialize", r.error,
                    invocation.initialized_since \/ r.error = "None",
                    invocation.cleaned, invocation.status)
    /\ UNCHANGED <<allocVars, cycleVars, fetchVars, applyVars>>

Execute ==
    /\ invocation.calls < MaxLifecycleCalls
    /\ \E create_ok \in BOOLEAN, run_ok \in BOOLEAN :
        \E r \in {execute(budget_agent, create_ok,
                          [ok |-> run_ok, data |-> Response(<<>>, "None")])} :
            /\ budget_agent' = r.agent
            /\ invocation' =
                LifecycleCall("execute", r.error,
                    invocation.initialized_since
                        \/ r.error \in {"None", "AgentError"},
                    invocation.cleaned, invocation.status)
    /\ UNCHANGED <<allocVars, cycleVars, fetchVars, applyVars>>

Cleanup ==
    /\ invocation.calls < MaxLifecycleCalls
    /\ budget_agent' = cleanup(budget_agent)
    /\ invocation' = LifecycleCall("cleanup", "None", FALSE, TRUE,
                                   invocation.status)
    /\ UNCHANGED <<allocVars, cycleVars, fetchVars, applyVars>>

GetStatus ==
    /\ invocation.calls < MaxLifecycleCalls
    /\ invocation' = LifecycleCall("get_status", "None",
                                   invocation.initialized_since,
                                   invocation.cleaned,
                                   get_status(budget_agent))
    /\ UNCHANGED <<budget_agent, allocVars, cycleVars, fetchVars, applyVars>>

LifecycleNext == Initialize \/ Execute \/ Cleanup \/ GetStatus

LifecycleSpec == LifecycleInit /\ [][LifecycleNext]_vars


(***************************************************************************)
(* PerformanceSpec: update_arm_performance, reset_performance and          *)
(* get_arm_performance called in any order on one                          *)
(* OptimizationStrategyService, up to MaxPerformanceCalls calls.  The      *)
(* record of the last call counts the updates of each arm id since the     *)
(* last reset and keeps the ids a reset has cleared.                       *)
(***************************************************************************)
MaxPerformanceCalls == 3

PerformanceArms == {ArmA2, ArmB3, ArmB1, ArmD}
PerformanceIds == {"A", "B", "C"}
PerformanceGoals == {"roas", "profit"}

PerformanceInit ==
    /\ invocation = [op |-> "__init__", calls |-> 0,
                     after |-> "none", arm |-> ArmB1, goal |-> "roas",
                     before |-> NoPerformance,
                     updates |-> [id \in PerformanceIds |-> 0],
                     cleared |-> {},
                     result |-> get_arm_performance(NoPerformance, "A")]
    /\ AllocIdle
    /\ budget_agent = NewAgent
    /\ CycleIdle
    /\ FetchIdle
    /\ ApplyIdle

UpdateArmPerformance ==
    /\ invocation.calls < MaxPerformanceCalls
    /\ \E arm \in PerformanceArms, goal \in PerformanceGoals :
        \E perfs \in {update_arm_performance(strategy_service, arm, goal)} :
            /\ strategy_service' = perfs
            /\ invocation' =
                [invocation EXCEPT
                    !.op = "update_arm_performance",
                    !.calls = @ + 1, !.after = invocation.op,
                    !.arm = arm, !.goal = goal,
                    !.before = strategy_service,
                    !.updates[arm.id] = @ + 1,
                    !.result = get_arm_performance(perfs, arm.id)]
    /\ UNCHANGED <<request, calls, outcome, oracle, budget_agent, cycleVars,
                   fetchVars, applyVars>>

ResetArmPerformance ==
    /\ invocation.calls < MaxPerformanceCalls
    /\ strategy_service' = reset_performance(strategy_service)
    /\ invocation' =
        [invocation EXCEPT
            !.op = "reset_performance",
            !.calls = @ + 1, !.after = invocation.op,
            !.before = strategy_service,
            !.updates = [id \in PerformanceIds |-> 0],
            !.cleared = @ \cup DOMAIN strategy_service]
    /\ UNCHANGED <<request, calls, outcome, oracle, budget_agent, cycleVars,
                   fetchVars, applyVars>>

GetArmPerformance ==
    /\ invocation.calls < MaxPerformanceCalls
    /\ \E arm_id \in PerformanceIds :
        invocation' =
            [invocation EXCEPT
                !.op = "get_arm_performance",
                !.calls = @ + 1, !.after = invocation.op,
                !.arm = [ArmB1 EXCEPT !.id = arm_id],
                !.before = strategy_service,
                !.result = get_arm_performance(strategy_service, arm_id)]
    /\ UNCHANGED <<budget_agent, allocVars, cycleVars, fetchVars, applyVars>>

PerformanceNext ==
    UpdateArmPerformance \/ ResetArmPerformance \/ GetArmPerformance

PerformanceSpec == PerformanceInit /\ [][PerformanceNext]_vars


(***************************************************************************)
(* BanditSpec: one epsilon_greedy or thompson_sampling call on an          *)
(* OptimizationStrategyService that is new or holds the records of an      *)
(* earlier call.                                                           *)
(***************************************************************************)
MaxBanditArms == 2

BanditArmLists ==
    SeqsUpTo({ArmA2, ArmB3, ArmC, ArmB1}, MaxBanditArms) \ {<<>>}

BanditGoals == {"roas", "profit"}

\* arm_performance before the call
BanditHistories ==
    {NoPerformance,
     UpdateAll(NoPerformance, <<ArmA2, ArmB3>>, "roas"),
     UpdateAll(NoPerformance, <<ArmC, ArmB1, ArmA2>>, "profit")}

BanditBudget == R(300)

BanditInit ==
    /\ strategy_service \in BanditHistories
    /\ invocation = [op |-> "__init__"]
    /\ request = NoRequest
    /\ calls = 0
    /\ outcome = NoOutcome
    /\ oracle = NoOracle
    /\ budget_agent = NewAgent
    /\ CycleIdle
    /\ FetchIdle
    /\ ApplyIdle

BanditCall(op, arms, goal, rnd, r) ==
    [op |-> op, arms |-> arms, goal |-> goal, total_budget |-> BanditBudget,
     rnd |-> rnd, before |-> strategy_service, perfs |-> r.perfs,
     allocations |-> r.allocations, error |-> r.error]

EpsilonGreedy ==
    /\ invocation.op = "__init__"
    /\ \E arms \in BanditArmLists, goal \in BanditGoals,
          explore \in BOOLEAN :
        \E pick \in 1..Len(arms) :
            \E r \in {epsilon_greedy(strategy_service, arms, BanditBudget,
                        goal, [explore |-> explore, pick |-> pick,
                               samples |-> EmptyDict])} :
                /\ strategy_service' = r.perfs
                /\ invocation' =
                    BanditCall("epsilon_greedy", arms, goal,
                        [explore |-> explore, pick |-> pick,
                         samples |-> EmptyDict], r)
    /\ UNCHANGED <<request, calls, outcome, oracle, budget_agent, cycleVars,
                   fetchVars, applyVars>>

ThompsonSampling ==
    /\ invocation.op = "__init__"
    /\ \E arms \in BanditArmLists, goal \in BanditGoals :
        \E samples \in [ArmIds(arms) -> BetaSamples] :
            \E r \in {thompson_sampling(strategy_service, arms, BanditBudget,
                        goal, [explore |-> FALSE, pick |-> 1,
                               samples |-> samples])} :
                /\ strategy_service' = r.perfs
                /\ invocation' =
                    BanditCall("thompson_sampling", arms, goal,
                        [explore |-> FALSE, pick |-> 1,
                         samples |-> samples], r)
    /\ UNCHANGED <<request, calls, outcome, oracle, budget_agent, cycleVars,
                   fetchVars, applyVars>>

BanditNext == EpsilonGreedy \/ ThompsonSampling

BanditSpec == BanditInit /\ [][BanditNext]_vars


(***************************************************************************)
(* LossSpec: allocate_budget, as in AllocSpec, on requests whose arms      *)
(* include campaigns that lose money and have at most one conversion.      *)
(***************************************************************************)
\* spend without any return
ArmLoss == ArmState("facebook", "L", R(100), Zero, 0, 10, 500)
\* one large sale
ArmGain == ArmState("google", "G", R(100), R(2000), 1, 40, 800)

LossArmLists == SeqsUpTo({ArmLoss, ArmGain, ArmC, ArmD}, MaxArms)

LossRequests ==
    {BudgetAllocationRequest(a, R(100), g, s) :
        a \in LossArmLists, g \in Goals, s \in Strategies}

LossInit ==
    /\ request \in LossRequests
    /\ calls = 0
    /\ outcome = NoOutcome
    /\ oracle = NoOracle
    /\ strategy_service = NoPerformance
    /\ budget_agent = NewAgent
    /\ CycleIdle
    /\ FetchIdle
    /\ ApplyIdle
    /\ CallIdle

LossSpec == LossInit /\ [][AllocNext]_vars


(***************************************************************************)
(* Claims                                                                  *)
(***************************************************************************)
Allocs == outcome.response.allocations

FallbackReturned == outcome.kind = "returned" /\ outcome.path = "fallback"

\* C1 (AllocSpec): whenever the LLM-backed path fails, at the agent's
\* initialization or at its execution, allocate_budget does not let the
\* error out but returns what the proportional fallback returns for the
\* same request (stated for requests with at least one arm).
C1_FallbackOnOracleFailure ==
    (/\ calls > 0
     /\ request.strategy = "intelligent"
     /\ request.arms # <<>>
     /\ oracle.init = "error" \/ oracle.run = "error")
    => /\ outcome.kind = "returned"
       /\ outcome.response = _allocate_budget_fallback(request).response

\* a task is inside optimize_once, suspended at a fetch or allocate await
Running(t) == pc[t] \in {"await_facebook", "await_agent"}

\* C2 (Spec): two optimize_once executions for the same account_id never
\* overlap: no two tasks of one account are both suspended inside their
\* cycles.
C2_NoOverlapPerAccount ==
    \A t1, t2 \in Tasks :
        (t1 # t2 /\ Running(t1) /\ Running(t2))
        => cycle[t1].account_id # cycle[t2].account_id

CarriesApplyOutcomes(rep) ==
    DOMAIN rep \cap {"apply", "apply_results", "results"} # {}

UpdateAttempted(a) ==
    \E j \in 1..Len(update_log) : update_log[j].adset_id = a.arm_id

\* C3 (Spec): a cycle with a non-empty working set that returned has
\* attempted UpdateBudget for every allocation on the platform whose
\* adapter supports it, and its report carries the apply outcomes.
C3_ApplyFollowsAllocate ==
    \A t \in Tasks :
        (pc[t] = "returned" /\ cycle[t].arms # <<>>)
        => /\ CarriesApplyOutcomes(report[t])
           /\ \A i \in 1..Len(report[t].allocations.allocations) :
                LET a == report[t].allocations.allocations[i]
                IN  a.platform = "facebook" => UpdateAttempted(a)

\* current_daily_budget, or spend when that is absent
StatedCurrent(arm) ==
    IF arm.current_daily_budget.some THEN arm.current_daily_budget.v
    ELSE arm.spend

\* C4 (AllocSpec): every allocation of the fallback path stays within
\* max_change_ratio of the arm's current budget, in the score-proportional
\* and in the equal-split branch.
C4_ClampEnvelope ==
    FallbackReturned =>
        \A i \in 1..Len(Allocs) :
            RLe(RAbs(RSub(Allocs[i].new_budget,
                          StatedCurrent(request.arms[i]))),
                RMul(request.max_change_ratio,
                     StatedCurrent(request.arms[i])))

\* the sum of score_arm over the arms of the request
ScoreSum(req) ==
    RSum([i \in 1..Len(req.arms) |->
            score_arm(req.arms[i], req.min_conversions,
                      req.optimization_goal)])

\* the budget of arm i before the clamp
RawBudget(req, i) ==
    RMul(req.total_budget,
         RDiv(score_arm(req.arms[i], req.min_conversions,
                        req.optimization_goal), ScoreSum(req)))

NoClampFires(req) ==
    \A i \in 1..Len(req.arms) :
        RLe(RAbs(RSub(RawBudget(req, i), StatedCurrent(req.arms[i]))),
            RMul(req.max_change_ratio, StatedCurrent(req.arms[i])))

\* C5 (AllocSpec): the fallback allocates exactly total_budget when the
\* score sum is positive and no clamp fires, and never more than
\* total_budget otherwise.
C5_Conservation ==
    FallbackReturned =>
        /\ (RLt(Zero, ScoreSum(request)) /\ NoClampFires(request))
            => outcome.response.total_allocated = request.total_budget
        /\ RLe(outcome.response.total_allocated, request.total_budget)

NoHistory(arm) ==
    /\ arm.spend = Zero
    /\ arm.conversions = 0
    /\ arm.impressions = 0
    /\ ~arm.current_daily_budget.some

\* C6 (AllocSpec): the fallback splits total_budget = 100 under goal roas
\* over two arms without history into 50 and 50, with the reason
\* "equal allocation (no performance data)".
C6_EqualSplitWithoutHistory ==
    (/\ FallbackReturned
     /\ Len(request.arms) = 2
     /\ request.arms[1].id # request.arms[2].id
     /\ \A i \in 1..2 : NoHistory(request.arms[i])
     /\ request.total_budget = R(100)
     /\ request.optimization_goal = "roas")
    => \A i \in 1..2 :
        /\ Allocs[i].new_budget = R(50)
        /\ Allocs[i].reason.text = "Equal allocation (no performance data)"

\* the fetch step of task t is over
Fetched(t) == pc[t] \in {"await_agent", "returned", "raised"}

\* C7 (Spec): a cycle whose fetch step yields no arm returns a report with
\* status no_data and never invokes the allocator.
C7_EmptyFetchNoData ==
    \A t \in Tasks :
        (Fetched(t) /\ Len(cycle[t].arms) = 0)
        => /\ pc[t] = "returned"
           /\ report[t].status = "no_data"
           /\ cycle[t].allocator_calls = 0

\* a cycle that asked a platform and got nothing has returned no_data
C7_Witness ==
    \E t \in Tasks :
        /\ pc[t] = "returned"
        /\ cycle[t].facebook_account_id # "None"
        /\ cycle[t].arms = <<>>
        /\ report[t].status = "no_data"

BothConfigured ==
    /\ fetch_call.facebook_account_id # "None"
    /\ fetch_call.google_customer_id # "None"

FetchOver == fetch_call.pc \in {"returned", "raised"}

\* the social platform delivered records and every one of them normalizes
FacebookSound ==
    /\ fetch_call.http.ok
    /\ fetch_call.http.data # <<>>
    /\ \A i \in 1..Len(fetch_call.http.data) :
            NormalizeFacebook(fetch_call.http.data[i]).ok

\* the search platform delivered records and every one of them normalizes
GoogleSound ==
    /\ get_campaign_insights # <<>>
    /\ \A i \in 1..Len(get_campaign_insights) :
            NormalizeGoogle(get_campaign_insights[i]).ok

Contains(arms, arm) == \E j \in 1..Len(arms) : arms[j] = arm

\* C8 (FetchSpec): with both platforms configured, fetch_arm_states never
\* raises, and a platform that failed or delivered nothing takes no arm of
\* the other platform away: every arm of a sound platform is in the result.
C8_PlatformFailureIsolated ==
    (FetchOver /\ BothConfigured)
    => /\ fetch_call.pc = "returned"
       /\ (FacebookSound /\ ~GoogleSound)
            => \A i \in 1..Len(fetch_call.http.data) :
                Contains(fetch_call.arms,
                         NormalizeFacebook(fetch_call.http.data[i]).arm)
       /\ (GoogleSound /\ ~FacebookSound)
            => \A i \in 1..Len(get_campaign_insights) :
                Contains(fetch_call.arms,
                         NormalizeGoogle(get_campaign_insights[i]).arm)

\* the search platform delivered nothing and the arms of the social
\* platform were returned
C8_Witness ==
    /\ fetch_call.pc = "returned"
    /\ BothConfigured
    /\ FacebookSound /\ ~GoogleSound
    /\ Len(fetch_call.arms) = Len(fetch_call.http.data)

\* C9 (ApplySpec): applying one social allocation whose update succeeds and
\* one search allocation left pending yields a report with status partial,
\* updated 1, failed 0 and pending 1.
C9_PartialReport ==
    (/\ apply_pc.at = "returned"
     /\ Len(apply_allocs) = 2
     /\ {apply_allocs[i].platform : i \in 1..2} = {"facebook", "google"}
     /\ CountStatus(apply_results, "success") = 1
     /\ CountStatus(apply_results, "pending") = 1)
    => /\ "status" \in DOMAIN apply_report
       /\ apply_report.status = "partial"
       /\ apply_report.updated = 1
       /\ apply_report.failed = 0
       /\ "pending" \in DOMAIN apply_report
       /\ apply_report.pending = 1

DistinctIds(arms) == Cardinality(ArmIds(arms)) = Len(arms)

\* C10 (AllocSpec): after k allocate_budget calls in a row with a bandit
\* strategy on one allocator, every arm of the calls has a performance
\* record with pulls = k.
C10_LearningStateSurvives ==
    (/\ request.strategy \in BanditStrategies
     /\ DistinctIds(request.arms)
     /\ calls >= 1
     /\ outcome.kind = "returned")
    => \A id \in ArmIds(request.arms) :
        /\ id \in DOMAIN strategy_service
        /\ strategy_service[id].pulls = calls

\* C11 (StrategySpec): immediately after reset_performance, a ucb allocation of 300 over
\* three arms gives every arm exactly 100, whatever the arms observed.
C11_UcbColdStart ==
    (/\ invocation.op = "ucb"
     /\ invocation.after = "reset_performance"
     /\ Len(invocation.arms) = 3
     /\ Cardinality(ArmIds(invocation.arms)) = 3)
    => \A id \in ArmIds(invocation.arms) :
            /\ id \in DOMAIN invocation.allocations
            /\ invocation.allocations[id] = R(100)

\* C17 (ScoreSpec): ltv_roas is (ltv * conversions) / spend whenever ltv is present and
\* spend > 0 (hence 0 without conversions), and roas in every other case.
C17_LtvRoas ==
    invocation.op = "ltv_roas"
    => LET arm == invocation.arm
       IN  invocation.result =
             IF arm.ltv.some /\ RLt(Zero, arm.spend)
             THEN RDiv(RMul(arm.ltv.v, R(arm.conversions)), arm.spend)
             ELSE IF RLt(Zero, arm.spend)
             THEN RDiv(arm.revenue, arm.spend)
             ELSE Zero

\* the arm is scored on its ROAS and nothing lowers the score
WellSampledRoas ==
    /\ invocation.op = "score_arm"
    /\ invocation.goal = "roas"
    /\ invocation.arm.conversions >= invocation.min_conversions
    /\ invocation.arm.inventory_status \notin {"low_stock", "out_of_stock"}
    /\ \/ ~invocation.arm.audience_quality_score.some
       \/ RLe(Rat(1, 2), invocation.arm.audience_quality_score.v)

\* the score of the same arm with another revenue
ScoreWithRevenue(revenue) ==
    score_arm([invocation.arm EXCEPT !.revenue = revenue],
              invocation.min_conversions, invocation.goal)

\* C18 (ScoreSpec) as stated: of two such arms differing only in revenue, the one with
\* the larger revenue has the strictly larger score.
C18_RevenueMonotone ==
    WellSampledRoas
    => \A revenue \in ScoreRevenues :
            RLt(invocation.arm.revenue, revenue)
            => RLt(invocation.result, ScoreWithRevenue(revenue))

\* C18 (ScoreSpec) amended: the same, for arms with spend > 0.
C18_RevenueMonotoneWithSpend ==
    (WellSampledRoas /\ RLt(Zero, invocation.arm.spend))
    => \A revenue \in ScoreRevenues :
            RLt(invocation.arm.revenue, revenue)
            => RLt(invocation.result, ScoreWithRevenue(revenue))

C18_Witness ==
    /\ WellSampledRoas
    /\ RLt(Zero, invocation.arm.spend)
    /\ invocation.arm.revenue = R(500)
    /\ invocation.arm.audience_quality_score = Some(Rat(9, 10))
    /\ RLt(invocation.result, ScoreWithRevenue(R(1000)))

\* C19 (ScoreSpec): an arm with conversions < min_conversions scores exactly 1.5 with
\* impressions and exactly 1.0 without, whatever the goal and the overlays.
C19_ExplorationBonus ==
    (invocation.op = "score_arm"
     /\ invocation.arm.conversions < invocation.min_conversions)
    => /\ invocation.result =
            IF invocation.arm.impressions > 0 THEN Rat(3, 2) ELSE One
       /\ RLe(One, invocation.result)

C19_Witness ==
    /\ invocation.op = "score_arm"
    /\ invocation.arm.conversions = 7
    /\ invocation.min_conversions = DefaultMinConversions
    /\ invocation.arm.inventory_status = "out_of_stock"
    /\ invocation.arm.audience_quality_score = Some(Rat(4, 10))
    /\ invocation.arm.impressions > 0
    /\ invocation.result = Rat(3, 2)

\* C20 (AllocSpec): for arm A out of stock and arm B in stock, otherwise
\* identical (revenue 1000, spend 100, 20 conversions, 5000 impressions),
\* under goal roas the scores are 1.0 and 10 and the fallback's allocation
\* of total_budget = 110 returns new_budget 10 for A and 100 for B.
C20_OutOfStockPenalty ==
    (/\ FallbackReturned
     /\ request.arms = <<ArmA3, ArmB3>>
     /\ request.total_budget = R(110)
     /\ request.optimization_goal = "roas")
    => /\ Allocs[1].score = One
       /\ Allocs[2].score = R(10)
       /\ Allocs[1].new_budget = R(10)
       /\ Allocs[2].new_budget = R(100)

\* the issues of the audit response, tracking and configuration together
AuditIssues ==
    invocation.response.tracking_issues
        \o invocation.response.configuration_issues

\* number of issues of a type in the audit response
IssueCount(issue_type) ==
    Cardinality({i \in 1..Len(AuditIssues) :
                    AuditIssues[i].issue_type = issue_type})

\* 100 - 20 * critical - 10 * high - 5 * medium over the emitted issues
RawHealth ==
    100 - 20 * SeverityCount(AuditIssues, "critical")
        - 10 * SeverityCount(AuditIssues, "high")
        - 5 * SeverityCount(AuditIssues, "medium")

\* C12 (AuditSpec): overall_health_score is
\* max(0, 100 - 20 * critical - 10 * high - 5 * medium) over the tracking
\* and configuration issues emitted together, hence within 0..100, and
\* critical_issues_count is the critical count of the formula.
C12_HealthScore ==
    invocation.op = "_audit_fallback"
    => /\ invocation.response.overall_health_score =
            IF RawHealth > 0 THEN RawHealth ELSE 0
       /\ invocation.response.overall_health_score \in 0..100
       /\ invocation.response.critical_issues_count =
            SeverityCount(AuditIssues, "critical")

\* an audit whose penalties exceed 100 and whose score is 0
C12_Witness ==
    /\ invocation.op = "_audit_fallback"
    /\ RawHealth < 0
    /\ invocation.response.overall_health_score = 0
    /\ invocation.response.critical_issues_count = 2

\* C13 (AuditSpec): exactly one missing_capi issue, of severity high, is
\* emitted whenever facebook's conversions_api_enabled is not true, also
\* when platform_configs is absent or empty, and none when it is true; the
\* same for missing_enhanced_conversions and google's
\* enhanced_conversions_enabled.
C13_PlatformIssuesOnce ==
    invocation.op = "_audit_fallback"
    => /\ IssueCount("missing_capi") =
            IF ConfigGet(invocation.request.platform_configs, "facebook",
                         "conversions_api_enabled")
            THEN 0 ELSE 1
       /\ IssueCount("missing_enhanced_conversions") =
            IF ConfigGet(invocation.request.platform_configs, "google",
                         "enhanced_conversions_enabled")
            THEN 0 ELSE 1
       /\ \A i \in 1..Len(AuditIssues) :
            AuditIssues[i].issue_type
                \in {"missing_capi", "missing_enhanced_conversions"}
            => AuditIssues[i].severity = "high"

\* the events of the request that are purchases without a revenue
SkippedEvents ==
    {i \in 1..Len(invocation.request.events) :
        /\ invocation.request.events[i].event_type = "purchase"
        /\ ~invocation.request.events[i].revenue.some}

\* number of signals of the response addressed to a platform
SignalsFor(platform) ==
    Cardinality({i \in 1..Len(invocation.response.signals) :
                    invocation.response.signals[i].platform = platform})

\* C14 (SignalSpec): with platform 'both' the rule-based generation returns
\* exactly 2 * V signals, V being the number of events that are not
\* purchases without revenue, one for facebook and one for google per such
\* event; with a single platform it returns exactly V signals; and each
\* skipped purchase adds exactly one entry to issues_detected.
C14_SignalFanOut ==
    invocation.op = "_generate_signals_fallback"
    => LET V == Len(invocation.request.events) - Cardinality(SkippedEvents)
       IN  /\ ~invocation.response.raised
           /\ Len(invocation.response.issues_detected)
                = Cardinality(SkippedEvents)
           /\ IF invocation.request.platform = "both"
              THEN /\ Len(invocation.response.signals) = 2 * V
                   /\ SignalsFor("facebook") = V
                   /\ SignalsFor("google") = V
              ELSE /\ Len(invocation.response.signals) = V
                   /\ SignalsFor(invocation.request.platform) = V

\* two events, one of them a skipped purchase, fanned out to both platforms
C14_Witness ==
    /\ invocation.op = "_generate_signals_fallback"
    /\ invocation.request.platform = "both"
    /\ Len(invocation.request.events) = 2
    /\ Cardinality(SkippedEvents) = 1
    /\ Len(invocation.response.signals) = 2
    /\ Len(invocation.response.issues_detected) = 1

\* C15 (SignalSpec): every signal classified 'high_value_purchase' carries
\* value = predicted_ltv of the event's user, whatever the other request
\* fields, also when a product-margin map is supplied and the event names
\* a product_id.
C15_HighValueCarriesLtv ==
    invocation.op = "_generate_signals_fallback"
    => \A i \in 1..Len(invocation.response.signals) :
        invocation.response.signals[i].classification
            = "high_value_purchase"
        => \E j \in 1..Len(invocation.request.events) :
            /\ invocation.request.events[j].event_id
                = invocation.response.signals[i].event_id[1]
            /\ invocation.response.signals[i].value
                = FirstLtv(invocation.request.ltv_data.v,
                           invocation.request.events[j].user_id
                          ).predicted_ltv.v

AdapterCalls == {"get_insights", "update_adset_budget",
                 "send_conversion_event"}

\* C16 (AdapterSpec): no adapter call (get_insights, update_adset_budget,
\* send_conversion_event) raises to its caller; when the transport or the
\* HTTP status fails the call returns an empty result together with an
\* error value.
C16_AdaptersNeverRaise ==
    invocation.op \in AdapterCalls
    => /\ ~invocation.result.raised
       /\ ~invocation.http.ok
            => /\ invocation.result.value = <<>>
               /\ invocation.result.error # "None"

LifecycleCalls == {"__init__", "initialize", "execute", "cleanup",
                   "get_status"}

\* C21 (LifecycleSpec): a new agent is not initialized; after any sequence
\* of initialize, execute and cleanup the flag is true exactly when an
\* initialize has succeeded since the construction or the last cleanup, it
\* is true if and only if the agent object is set, a failed initialize
\* leaves it false, and get_status reports the current flag.
C21_Lifecycle ==
    invocation.op \in LifecycleCalls
    => /\ invocation.op = "__init__" => ~budget_agent._initialized
       /\ budget_agent._initialized <=> invocation.initialized_since
       /\ budget_agent._initialized <=> budget_agent._agent # "None"
       /\ (invocation.op = "initialize" /\ invocation.error # "None")
            => ~budget_agent._initialized
       /\ invocation.op = "get_status"
            => invocation.status.initialized = budget_agent._initialized

\* get_status reports an agent initialized again after a cleanup
C21_Witness ==
    /\ invocation.op = "get_status"
    /\ invocation.cleaned
    /\ invocation.status.initialized
    /\ budget_agent._initialized

PerformanceCalls == {"__init__", "update_arm_performance",
                     "reset_performance", "get_arm_performance"}

\* C22 (PerformanceSpec): after any sequence of update_arm_performance and
\* reset_performance calls every record of the map has pulls equal to the
\* number of updates of its arm id since the last reset, hence pulls >= 1;
\* the first update seeds mean_reward = reward, variance = 0, pulls = 1 and
\* each later one adds exactly 1 to pulls.
C22_PullsCountUpdates ==
    invocation.op \in PerformanceCalls
    => /\ \A id \in PerformanceIds :
            IF invocation.updates[id] = 0
            THEN id \notin DOMAIN strategy_service
            ELSE /\ id \in DOMAIN strategy_service
                 /\ strategy_service[id].pulls = invocation.updates[id]
                 /\ strategy_service[id].pulls >= 1
       /\ DOMAIN strategy_service \subseteq PerformanceIds
       /\ invocation.op = "update_arm_performance"
            => IF invocation.arm.id \notin DOMAIN invocation.before
               THEN /\ invocation.result.v.mean_reward
                        = Reward(invocation.arm, invocation.goal)
                    /\ invocation.result.v.variance = Zero
                    /\ invocation.result.v.pulls = 1
               ELSE invocation.result.v.pulls
                        = invocation.before[invocation.arm.id].pulls + 1

\* an arm id updated three times in a row
C22_Witness ==
    /\ invocation.op = "update_arm_performance"
    /\ invocation.arm.id \in DOMAIN invocation.before
    /\ strategy_service[invocation.arm.id].pulls = 3

\* C23 (PerformanceSpec): reset_performance clears the whole map: right
\* after it get_arm_performance returns no record for every arm id, and the
\* next update of any arm seeds pulls = 1 and mean_reward = reward whatever
\* the history of the arm before the reset.
C23_ResetClears ==
    /\ invocation.op = "reset_performance"
        => \A id \in PerformanceIds \cup DOMAIN invocation.before :
            ~get_arm_performance(strategy_service, id).some
    /\ (invocation.op = "get_arm_performance"
        /\ invocation.after = "reset_performance")
        => ~invocation.result.some
    /\ (invocation.op = "update_arm_performance"
        /\ invocation.after = "reset_performance")
        => /\ invocation.result.some
           /\ invocation.result.v.pulls = 1
           /\ invocation.result.v.variance = Zero
           /\ invocation.result.v.mean_reward
                = Reward(invocation.arm, invocation.goal)

\* the first update after a reset of an arm id the reset had cleared
C23_Witness ==
    /\ invocation.op = "update_arm_performance"
    /\ invocation.after = "reset_performance"
    /\ invocation.arm.id \in invocation.cleared
    /\ invocation.result.v.pulls = 1

\* number of entries of the call's arm list that carry the id
Occurrences(id) ==
    Cardinality({i \in 1..Len(invocation.arms) : invocation.arms[i].id = id})

\* pulls of the id before the call
PullsBefore(id) ==
    IF id \in DOMAIN invocation.before THEN invocation.before[id].pulls
    ELSE 0

\* C24 (BanditSpec): for every non-empty arm list every outcome of
\* epsilon_greedy gives a budget to exactly one arm id: total_budget / n to
\* an arm of the input when it explores, the whole total_budget to an arm
\* whose updated mean_reward is maximal among the input arms when it
\* exploits; every input arm has been through update_arm_performance.
C24_EpsilonGreedyOneArm ==
    invocation.op = "epsilon_greedy"
    => /\ invocation.error = "None"
       /\ \A id \in ArmIds(invocation.arms) :
            /\ id \in DOMAIN invocation.perfs
            /\ invocation.perfs[id].pulls = PullsBefore(id) + Occurrences(id)
       /\ \E id \in ArmIds(invocation.arms) :
            /\ DOMAIN invocation.allocations = {id}
            /\ IF invocation.rnd.explore
               THEN /\ invocation.allocations[id]
                        = RDiv(invocation.total_budget,
                               R(Len(invocation.arms)))
                    /\ id = invocation.arms[invocation.rnd.pick].id
               ELSE /\ invocation.allocations[id] = invocation.total_budget
                    /\ \A other \in ArmIds(invocation.arms) :
                        RLe(invocation.perfs[other].mean_reward,
                            invocation.perfs[id].mean_reward)

\* an exploiting call on a service with history whose two arms differ in
\* mean_reward and whose second arm wins
C24_Witness ==
    /\ invocation.op = "epsilon_greedy"
    /\ ~invocation.rnd.explore
    /\ invocation.before # NoPerformance
    /\ Len(invocation.arms) = 2
    /\ DOMAIN invocation.allocations = {invocation.arms[2].id}
    /\ RLt(invocation.perfs[invocation.arms[1].id].mean_reward,
           invocation.perfs[invocation.arms[2].id].mean_reward)

\* C25 (BanditSpec): in thompson_sampling, for every record with pulls > 0
\* the success rate derived from mean_reward lies in [0, 1], so that
\* 0 <= successes <= pulls, 0 <= failures <= pulls and both Beta parameters
\* are >= 1, also for a negative mean_reward (goal profit).
C25_SuccessRateInUnitInterval ==
    invocation.op = "thompson_sampling"
    => \A id \in ArmIds(invocation.arms) :
        invocation.perfs[id].pulls > 0
        => /\ RLe(Zero, NormalizedReward(invocation.perfs[id]))
           /\ RLe(NormalizedReward(invocation.perfs[id]), One)
           /\ BetaParams(invocation.perfs[id]).alpha >= 1
           /\ BetaParams(invocation.perfs[id]).beta >= 1
           /\ BetaParams(invocation.perfs[id]).alpha
                <= invocation.perfs[id].pulls + 1
           /\ BetaParams(invocation.perfs[id]).beta
                <= invocation.perfs[id].pulls + 1

\* C26 (FetchSpec): a malformed insight record makes fetch_arm_states skip
\* that record only: every well-formed record of the platform, before or
\* after the malformed one, still yields an arm of the returned list.
C26_MalformedSkipsOneRecord ==
    (fetch_call.pc = "returned" /\ fetch_call.http.ok)
    => \A i \in 1..Len(fetch_call.http.data) :
        NormalizeFacebook(fetch_call.http.data[i]).ok
        => \E j \in 1..Len(fetch_call.arms) :
            fetch_call.arms[j] = NormalizeFacebook(fetch_call.http.data[i]).arm

\* the call returned on a path that does not consult the LLM-backed agent
ReturnedWithoutLLM ==
    /\ calls >= 1
    /\ outcome.kind = "returned"
    /\ outcome.path \in {"bandit", "fallback"}

\* C27 (LossSpec): every allocation that allocate_budget returns on a path
\* without the LLM (rule-based fallback, epsilon_greedy, ucb,
\* thompson_sampling, adaptive) has new_budget >= 0, for every goal, profit
\* with its negative rewards included.
C27_NewBudgetNonNegative ==
    ReturnedWithoutLLM
    => \A i \in 1..Len(outcome.response.allocations) :
        RLe(Zero, outcome.response.allocations[i].new_budget)

\* the call returned from the score-proportional branch of the fallback
ReturnedProportional ==
    /\ calls >= 1
    /\ outcome.kind = "returned"
    /\ outcome.path = "fallback"
    /\ \E i \in 1..Len(outcome.response.allocations) :
        outcome.response.allocations[i].reason.text
            # "Equal allocation (no performance data)"

\* C28 (AllocSpec): the proportional fallback returns one allocation per
\* input arm, in input order, whose score is the score_arm of that very arm
\* (floored at 0) and whose shares before the clamp sum to 1, also when two
\* input arms carry the same id.
C28_FallbackPerArm ==
    ReturnedProportional
    => /\ Len(outcome.response.allocations) = Len(request.arms)
       /\ \A i \in 1..Len(request.arms) :
            /\ outcome.response.allocations[i].arm_id = request.arms[i].id
            /\ outcome.response.allocations[i].platform
                = request.arms[i].platform
            /\ outcome.response.allocations[i].score
                = RMax(score_arm(request.arms[i], request.min_conversions,
                                 request.optimization_goal), Zero)
       /\ RSum([i \in 1..Len(request.arms) |->
                    outcome.response.allocations[i].reason.share]) = One

\* C29 (AllocSpec): in every allocation returned on a path without the LLM
\* change_percentage agrees with the budgets of the same record: it is
\* 100 * (new_budget - current_budget) / current_budget when
\* current_budget > 0 and 0 when current_budget = 0.
C29_ChangePercentageConsistent ==
    ReturnedWithoutLLM
    => \A i \in 1..Len(outcome.response.allocations) :
        LET a == outcome.response.allocations[i]
        IN  a.change_percentage
              = IF RLt(Zero, a.current_budget)
                THEN RDiv(RMul(R(100), RSub(a.new_budget, a.current_budget)),
                          a.current_budget)
                ELSE Zero

\* C30 (ApplySpec): apply_budget_changes records exactly one outcome per
\* input allocation, each with status success, pending or error, so the
\* three counts add up to the number of allocations; an error on one arm
\* neither stops the later allocations nor changes an earlier outcome.
C30_OneOutcomePerAllocation ==
    /\ apply_pc.at = "returned"
        => /\ Len(apply_results) = Len(apply_allocs)
           /\ \A i \in 1..Len(apply_results) :
                /\ apply_results[i].arm_id = apply_allocs[i].arm_id
                /\ apply_results[i].status \in {"success", "pending", "error"}
           /\ CountStatus(apply_results, "success")
                + CountStatus(apply_results, "error")
                + CountStatus(apply_results, "pending") = Len(apply_allocs)
           /\ apply_report.updated + apply_report.failed
                + CountStatus(apply_report.results, "pending")
                = Len(apply_allocs)
    /\ apply_pc.at = "await_update"
        => \A i \in 1..Len(apply_results) :
            apply_results[i].status \in {"success", "pending", "error"}

====
